---- MODULE Spec2Model ----
(***************************************************************************)
(* IAM Immune System: the detection-and-remediation pipeline.              *)
(*                                                                         *)
(*   functions/iam_monitor/main.py            EventProcessor               *)
(*   functions/iam_monitor/detectors/*.py     the five detectors           *)
(*   functions/iam_monitor/remediators/*.py   the three remediators        *)
(*                                                                         *)
(* Specifications                                                          *)
(*   Spec          one process_event invocation; every collaborator call   *)
(*                 (detect, remediate, analyze, publish) may return or     *)
(*                 raise                                                   *)
(*   SpecFault     Spec plus an exception raised outside the per-call      *)
(*                 handlers of process_event (caught at main.py 238-241)   *)
(*   SpecDispatch  _execute_remediation alone, on any DetectionResult,     *)
(*                 with the three registered remediators                   *)
(*   SpecDispatchFault  the same with remediators that may also raise      *)
(*   SpecDetect    detect of each detector applied to one event            *)
(*   SpecRemediate remediate of each remediator applied to one finding,    *)
(*                 once and a second time, on the bucket and IAM state     *)
(*   SpecRace      the remediations of two overlapping invocations on the  *)
(*                 same finding, their external calls interleaved          *)
(*   SpecRisk      _calculate_risk_score applied to one factor map         *)
(*   SpecAnalyze   detect of each registered detector applied to one       *)
(*                 event in detail (identity, request parameters, policy   *)
(*                 documents, hour) under one environment                  *)
(***************************************************************************)
EXTENDS Integers, Sequences, FiniteSets, TLC

VARIABLES
    pc,                  \* position of the running call
    detectors,           \* EventProcessor.detectors (enabled, registration order)
    AUTO_REMEDIATION,    \* main.AUTO_REMEDIATION
    dry_run,             \* REMEDIATION_DRY_RUN as read by the remediators
    channels,            \* alert channels configured for AlertTeamRemediator
    cloud,               \* the AWS resources the remediators act on
    cloud0,              \* history: cloud before the first remediate call
    inv,                 \* the overlapping remediate calls in progress
    event,               \* the event handed to process_event / detect
    di,                  \* index of the detector the loop is at
    detection_result,    \* result of the last detect call / finding being remediated
    ai,                  \* index into detection_result.recommended_actions
    remediation_results, \* the record _execute_remediation is building
    results,             \* the record process_event is building
    returned,            \* value returned by the call under study
    factors,             \* argument of _calculate_risk_score
    calls,               \* history: calls made to collaborators, in order
    detectLog,           \* history: outcome of every detect call, in order
    remLog,              \* history: outcome per action of the current dispatch
    env                  \* os.environ as the detectors read it when constructed

vars == <<pc, detectors, AUTO_REMEDIATION, dry_run, channels, cloud, cloud0,
                   inv, event, di,
          detection_result, ai, remediation_results, results, returned,
          factors, calls, detectLog, remLog, env>>

\* Python's None, and the outcome of a call that raised instead of returning.
None == [none |-> TRUE]
Raise == [raised |-> TRUE]

----------------------------------------------------------------------------
(* Bounds                                                                  *)

MaxEnabled == 2     \* at most this many ENABLE_*_DETECTION flags are on
MaxActions == 3     \* longest recommended_actions list handed to the dispatcher
MaxFactors == 3     \* most risk factors in one factor map
MaxStatements == 2  \* most statements in a policy document of an event

----------------------------------------------------------------------------
(* RiskFusion: detectors/__init__.py                                       *)

\* A risk score is the quotient num/den of two integers (den > 0).
Score(n, d) == [num |-> n, den |-> d]
ScoreGE(s, t) == s.num >= t * s.den
ScoreEq(s, t) == s.num * t.den = t.num * s.den

RECURSIVE SumOver(_, _)
SumOver(f, S) ==
    IF S = {} THEN 0
    ELSE LET k == CHOOSE x \in S : TRUE IN f[k] + SumOver(f, S \ {k})

\* Faulty variant: the cap at 100 is left out.
calculate_risk_score_nocap(fs) ==
    IF DOMAIN fs = {} THEN Score(0, 1)
    ELSE Score(SumOver(fs, DOMAIN fs), Cardinality(DOMAIN fs))

calculate_risk_score(fs) ==
    IF DOMAIN fs = {} THEN Score(0, 1)
    ELSE LET weights == [k \in DOMAIN fs |-> 1]
             total_weight == SumOver(weights, DOMAIN weights)
             weighted_sum == SumOver([k \in DOMAIN fs |-> fs[k] * weights[k]], DOMAIN fs)
         IN  IF weighted_sum > 100 * total_weight
             THEN Score(100, 1)
             ELSE Score(weighted_sum, total_weight)

Severity == {"Severity.LOW", "Severity.MEDIUM", "Severity.HIGH", "Severity.CRITICAL"}

\* Faulty variant: the CRITICAL threshold is exclusive.
determine_severity_exclusive(risk_score) ==
    IF risk_score.num > 80 * risk_score.den THEN "Severity.CRITICAL"
    ELSE IF ScoreGE(risk_score, 60) THEN "Severity.HIGH"
    ELSE IF ScoreGE(risk_score, 40) THEN "Severity.MEDIUM"
    ELSE "Severity.LOW"

determine_severity(risk_score) ==
    IF ScoreGE(risk_score, 80) THEN "Severity.CRITICAL"
    ELSE IF ScoreGE(risk_score, 60) THEN "Severity.HIGH"
    ELSE IF ScoreGE(risk_score, 40) THEN "Severity.MEDIUM"
    ELSE "Severity.LOW"

----------------------------------------------------------------------------
(* Detection results: detectors/__init__.py, and the threshold policy at   *)
(* the end of each detector's detect                                       *)

DetectionResult(is_threat, risk_score, severity, details, recommended_actions, auto_remediate, detector_name) ==
    [is_threat |-> is_threat, risk_score |-> risk_score, severity |-> severity,
     details |-> details, recommended_actions |-> recommended_actions,
     auto_remediate |-> auto_remediate, detector_name |-> detector_name]

\* The zero-risk result of a gate miss, an allow-list hit or a caught fault.
ZeroResult(name, details) ==
    DetectionResult(FALSE, Score(0, 1), "Severity.LOW", details, <<>>, FALSE, name)

\* public_bucket.py 78-107
PublicBucketDecision(risk_score, details) ==
    LET is_threat == ScoreGE(risk_score, 40)
        recommended_actions ==
            IF is_threat
            THEN IF ScoreGE(risk_score, 80)
                 THEN <<"revoke_access", "block_public", "alert_team">>
                 ELSE <<"block_public", "alert_team">>
            ELSE <<>>
    IN  DetectionResult(is_threat, risk_score, determine_severity(risk_score),
                        details, recommended_actions, ScoreGE(risk_score, 60),
                        "PublicBucketDetector")

\* Faulty variant: revoke_access is recommended from 90 only, above the
\* auto-remediation threshold.
AdminGrantDecision_late_revoke(risk_score, details) ==
    LET is_threat == ScoreGE(risk_score, 50)
        recommended_actions ==
            IF is_threat
            THEN IF ScoreGE(risk_score, 90)
                 THEN <<"revoke_access", "alert_team">>
                 ELSE <<"alert_team">>
            ELSE <<>>
    IN  DetectionResult(is_threat, risk_score, determine_severity(risk_score),
                        details, recommended_actions, ScoreGE(risk_score, 80),
                        "AdminGrantDetector")

\* admin_grant.py 98-128
AdminGrantDecision(risk_score, details) ==
    LET is_threat == ScoreGE(risk_score, 50)
        recommended_actions ==
            IF is_threat
            THEN IF ScoreGE(risk_score, 70)
                 THEN <<"revoke_access", "alert_team">>
                 ELSE <<"alert_team">>
            ELSE <<>>
    IN  DetectionResult(is_threat, risk_score, determine_severity(risk_score),
                        details, recommended_actions, ScoreGE(risk_score, 80),
                        "AdminGrantDetector")

\* Faulty variant: auto-remediation is switched on below the threat
\* threshold.
PolicyChangeDecision_auto_below_threat(risk_score, details) ==
    LET is_threat == ScoreGE(risk_score, 45)
        recommended_actions ==
            IF is_threat
            THEN IF ScoreGE(risk_score, 75)
                 THEN <<"revoke_access", "alert_team">>
                 ELSE <<"alert_team">>
            ELSE <<>>
    IN  DetectionResult(is_threat, risk_score, determine_severity(risk_score),
                        details, recommended_actions, ScoreGE(risk_score, 25),
                        "PolicyChangeDetector")

\* policy_change.py 75-105
PolicyChangeDecision(risk_score, details) ==
    LET is_threat == ScoreGE(risk_score, 45)
        recommended_actions ==
            IF is_threat
            THEN IF ScoreGE(risk_score, 75)
                 THEN <<"revoke_access", "alert_team">>
                 ELSE <<"alert_team">>
            ELSE <<>>
    IN  DetectionResult(is_threat, risk_score, determine_severity(risk_score),
                        details, recommended_actions, ScoreGE(risk_score, 85),
                        "PolicyChangeDetector")

\* cross_account.py 79-110
CrossAccountDecision(risk_score, details) ==
    LET is_threat == ScoreGE(risk_score, 40)
        recommended_actions ==
            IF is_threat
            THEN IF ScoreGE(risk_score, 70)
                 THEN <<"revoke_access", "alert_team">>
                 ELSE <<"alert_team">>
            ELSE <<>>
    IN  DetectionResult(is_threat, risk_score, determine_severity(risk_score),
                        details, recommended_actions, ScoreGE(risk_score, 80),
                        "CrossAccountDetector")

Decision(d, risk_score, details) ==
    CASE d = "PublicBucketDetector" -> PublicBucketDecision(risk_score, details)
      [] d = "AdminGrantDetector"   -> AdminGrantDecision(risk_score, details)
      [] d = "PolicyChangeDetector" -> PolicyChangeDecision(risk_score, details)
      [] d = "CrossAccountDetector" -> CrossAccountDecision(risk_score, details)

----------------------------------------------------------------------------
(* EventProcessor: main.py                                                 *)

\* _initialize_detectors: the four detectors in registration order, each
\* behind its ENABLE_*_DETECTION flag.
RegisteredDetectors ==
    <<"PublicBucketDetector", "AdminGrantDetector",
      "PolicyChangeDetector", "CrossAccountDetector">>

\* _initialize_remediators: the name -> remediator registry.
RegisteredRemediators == {"revoke_access", "block_public", "alert_team"}

RECURSIVE Enabled(_, _)
Enabled(flags, i) ==
    IF i > Len(RegisteredDetectors) THEN <<>>
    ELSE (IF RegisteredDetectors[i] \in flags
          THEN <<RegisteredDetectors[i]>> ELSE <<>>) \o Enabled(flags, i + 1)

initialize_detectors(flags) == Enabled(flags, 1)

Absent == "<absent>"
Get(rec, key, default) == IF rec[key] = Absent THEN default ELSE rec[key]

\* What one detect call can hand back to process_event: an exception, the
\* zero-risk result, or the detector's decision at a score. The scores are
\* one below the detector's lowest threshold and each of its thresholds.
BandScores(d) ==
    CASE d = "PublicBucketDetector" -> {30, 40, 60, 80}
      [] d = "AdminGrantDetector"   -> {30, 50, 70, 80}
      [] d = "PolicyChangeDetector" -> {30, 45, 75, 85}
      [] d = "CrossAccountDetector" -> {30, 40, 70, 80}

DetectOutcomes(d) ==
    {Raise} \cup {ZeroResult(d, [kind |-> "reason"])}
            \cup {Decision(d, Score(s, 1), [kind |-> "finding"]) : s \in BandScores(d)}

\* What one remediate call can hand back to _execute_remediation.
RemediateReturns == {"success", "failure"}
RemediateOutcomes == RemediateReturns \cup {"raise"}

\* What anomaly_detector.analyze can hand back: the flag is a Python bool or
\* (the usual case, a comparison of a numpy float) a numpy.bool_.
AnalyzeOutcomes ==
    {Raise} \cup [is_anomaly : BOOLEAN, flag_type : {"bool", "numpy.bool_"}]

PublishOutcomes == {"message_id", "raise"}

\* One entry of the call history: the operation, its target, how it ended.
Call(op, who, out) == [op |-> op, who |-> who, out |-> out]

InitialResults(e) ==
    [event_id |-> Get(e, "eventID", "unknown"),
     event_name |-> Get(e, "eventName", "unknown"),
     timestamp |-> "utcnow",
     detections |-> <<>>,
     remediations |-> <<>>,
     ml_analysis |-> None,
     error |-> None]          \* None: the record has no 'error' key

InitialRemediation == [actions_taken |-> <<>>, success |-> TRUE, errors |-> <<>>]

DetectionEntry(d, r) ==
    [detector |-> d, risk_score |-> r.risk_score, severity |-> r.severity,
     details |-> r.details, recommended_actions |-> r.recommended_actions]

\* main.py 159-171: the result record is created before the try block.
process_event_begin ==
    /\ pc = "idle"
    /\ results' = InitialResults(event)
    /\ di' = 1
    /\ pc' = "detect"
    /\ UNCHANGED <<env, detectors, AUTO_REMEDIATION, dry_run, channels, cloud, cloud0,
                   inv, event,
                   detection_result, ai, remediation_results, returned,
                   factors, calls, detectLog, remLog>>

\* Faulty variant: the global switch is not consulted.
ShouldRemediate_ignoring_switch(r) == r.auto_remediate

\* main.py 193: the guard of the dispatch.
ShouldRemediate(r) == AUTO_REMEDIATION /\ r.auto_remediate

\* Faulty variant: a detector's exception ends the detector loop.
AfterDetectorRaise_abort(i) == Len(detectors) + 1

\* main.py 199-203: a detector's exception is logged and the loop goes on.
AfterDetectorRaise(i) == i + 1

\* main.py 175-203: one pass of the detector loop, up to the point where
\* the dispatcher (if any) takes over.
DetectStep ==
    /\ pc = "detect"
    /\ di <= Len(detectors)
    /\ LET d == detectors[di] IN
       \E out \in DetectOutcomes(d) :
          /\ detectLog' = Append(detectLog, [detector |-> d, outcome |-> out])
          /\ calls' =
               LET c == Append(calls, Call("detect", d,
                                IF out = Raise THEN "raise" ELSE "return"))
               IN  IF out # Raise /\ out.is_threat /\ ShouldRemediate(out)
                   THEN Append(c, Call("_execute_remediation", d, "enter"))
                   ELSE c
          /\ IF out = Raise
             THEN /\ di' = AfterDetectorRaise(di)
                  /\ UNCHANGED <<pc, results, detection_result, ai,
                                 remediation_results, remLog>>
             ELSE /\ detection_result' = out
                  /\ IF out.is_threat
                     THEN /\ results' = [results EXCEPT !.detections =
                                            Append(@, DetectionEntry(d, out))]
                          /\ IF ShouldRemediate(out)
                             THEN /\ pc' = "remediate"
                                  /\ ai' = 1
                                  /\ remediation_results' = InitialRemediation
                                  /\ remLog' = <<>>
                                  /\ di' = di
                             ELSE /\ di' = di + 1
                                  /\ UNCHANGED <<pc, ai, remediation_results, remLog>>
                     ELSE /\ di' = di + 1
                          /\ UNCHANGED <<pc, results, ai, remediation_results, remLog>>
    /\ UNCHANGED <<env, detectors, AUTO_REMEDIATION, dry_run, channels, cloud, cloud0,
                   inv, event,
                   returned, factors>>

\* Faulty variant: an action already attempted for this finding is skipped.
HasRemediator_once(action) ==
    /\ action \in RegisteredRemediators
    /\ \A k \in 1..Len(remLog) : remLog[k].action # action

\* main.py 261-262: the registry lookup of the dispatcher.
HasRemediator(action) == action \in RegisteredRemediators

\* Faulty variant: the first action that does not succeed ends the loop.
AfterAction_stop_on_failure(i, o) ==
    IF o = "success" THEN i + 1
    ELSE Len(detection_result.recommended_actions) + 1

\* main.py 260, 277-280: whatever the outcome of an action, the loop goes
\* on with the next one.
AfterAction(i, o) == i + 1

\* Faulty variant: an action that raised clears the success flag without
\* leaving an error.
RecordOutcome_silent_raise(rr, action, o) ==
    CASE o = "success" ->
           [rr EXCEPT !.actions_taken = Append(@, [action |-> action, success |-> TRUE])]
      [] o = "failure" ->
           [rr EXCEPT !.actions_taken = Append(@, [action |-> action, success |-> FALSE]),
                      !.success = FALSE,
                      !.errors = Append(@, "message")]
      [] o = "raise" -> [rr EXCEPT !.success = FALSE]

\* main.py 263-280: what the outcome o of remediate on action adds to the
\* record the dispatcher is building.
RecordOutcome(rr, action, o) ==
    CASE o = "success" ->
           [rr EXCEPT !.actions_taken = Append(@, [action |-> action, success |-> TRUE])]
      [] o = "failure" ->
           [rr EXCEPT !.actions_taken = Append(@, [action |-> action, success |-> FALSE]),
                      !.success = FALSE,
                      !.errors = Append(@, "message")]
      [] o = "raise" ->
           [rr EXCEPT !.success = FALSE,
                      !.errors = Append(@, "str(e)")]

\* main.py 259-280: one pass of the dispatcher's loop over recommended_actions.
RemediateStep(outcomes) ==
    /\ pc = "remediate"
    /\ ai <= Len(detection_result.recommended_actions)
    /\ LET action == detection_result.recommended_actions[ai] IN
       IF HasRemediator(action)
       THEN \E o \in outcomes :
              /\ ai' = AfterAction(ai, o)
              /\ calls' = Append(calls, Call("remediate", action, o))
              /\ remLog' = Append(remLog, [action |-> action, outcome |-> o])
              /\ remediation_results' = RecordOutcome(remediation_results, action, o)
       ELSE \* 274-275: no remediator registered, a warning is logged
            /\ remLog' = Append(remLog, [action |-> action, outcome |-> "unregistered"])
            /\ ai' = ai + 1
            /\ UNCHANGED <<calls, remediation_results>>
    /\ UNCHANGED <<env, pc, detectors, AUTO_REMEDIATION, dry_run, channels, cloud, cloud0,
                   inv, event, di,
                   detection_result, results, returned, factors, detectLog>>

\* main.py 282 and 197: the dispatcher returns into the detector loop.
DispatchReturn ==
    /\ pc = "remediate"
    /\ ai > Len(detection_result.recommended_actions)
    /\ results' = [results EXCEPT !.remediations = Append(@, remediation_results)]
    /\ di' = di + 1
    /\ pc' = "detect"
    /\ UNCHANGED <<env, detectors, AUTO_REMEDIATION, dry_run, channels, cloud, cloud0,
                   inv, event,
                   detection_result, ai, remediation_results, returned,
                   factors, calls, detectLog, remLog>>

\* The detector loop is exhausted.
LoopExit ==
    /\ pc = "detect"
    /\ di > Len(detectors)
    /\ pc' = "ml"
    /\ UNCHANGED <<env, detectors, AUTO_REMEDIATION, dry_run, channels, cloud, cloud0,
                   inv, event, di,
                   detection_result, ai, remediation_results, results, returned,
                   factors, calls, detectLog, remLog>>

\* Faulty variant: the analyzer runs ahead of the detector loop.
AnalyzeStep_before_detectors ==
    /\ pc = "detect"
    /\ di = 1
    /\ \A i \in 1..Len(calls) : calls[i].op # "analyze"
    /\ \E o \in AnalyzeOutcomes :
          /\ calls' = Append(calls, Call("analyze", "AnomalyDetector",
                                        IF o = Raise THEN "raise" ELSE "return"))
          /\ results' = IF o = Raise THEN results
                        ELSE [results EXCEPT !.ml_analysis = o]
    /\ UNCHANGED <<env, pc, detectors, AUTO_REMEDIATION, dry_run, channels, cloud, cloud0,
                   inv, event, di,
                   detection_result, ai, remediation_results, returned,
                   factors, detectLog, remLog>>

\* main.py 205-220: the anomaly analyzer, once per event.
\* (222-228: the SailPoint correlation is skipped, sailpoint_connector being
\* None unless ENABLE_SAILPOINT_INTEGRATION is set.)
AnalyzeStep ==
    /\ pc = "ml"
    /\ \E o \in AnalyzeOutcomes :
          /\ calls' = Append(calls, Call("analyze", "AnomalyDetector",
                                        IF o = Raise THEN "raise" ELSE "return"))
          /\ results' = IF o = Raise THEN results
                        ELSE [results EXCEPT !.ml_analysis = o]
    /\ pc' = "publish"
    /\ UNCHANGED <<env, detectors, AUTO_REMEDIATION, dry_run, channels, cloud, cloud0,
                   inv, event, di,
                   detection_result, ai, remediation_results, returned,
                   factors, detectLog, remLog>>

\* main.py 231-232
PublishWanted(res) ==
    \/ res.detections # <<>>
    \/ (res.ml_analysis # None /\ res.ml_analysis.is_anomaly)

\* main.py 292: json.dumps(results) raises TypeError on a Severity member
\* (every detection entry holds one) and on a numpy.bool_.
JsonSerializable(res) ==
    /\ \A i \in 1..Len(res.detections) : res.detections[i].severity \notin Severity
    /\ (res.ml_analysis # None => res.ml_analysis.flag_type = "bool")

\* main.py 284-298: the payload is built, then handed to the publisher;
\* any exception of either step is logged and swallowed.
publish_alert(res, o) ==
    IF JsonSerializable(res)
    THEN calls \o <<Call("_publish_alert", "EventProcessor", "enter"),
                    Call("publish", "pubsub_publisher", o)>>
    ELSE Append(calls, Call("_publish_alert", "EventProcessor", "enter"))

\* main.py 230-236
PublishStep ==
    /\ pc = "publish"
    /\ \E o \in PublishOutcomes :
          calls' = IF PublishWanted(results) THEN publish_alert(results, o) ELSE calls
    /\ returned' = results
    /\ pc' = "done"
    /\ UNCHANGED <<env, detectors, AUTO_REMEDIATION, dry_run, channels, cloud, cloud0,
                   inv, event, di,
                   detection_result, ai, remediation_results, results,
                   factors, detectLog, remLog>>

\* Faulty variant: the handler answers with a fresh record.
OrchestratorFault_discarding ==
    /\ pc \in {"detect", "ml", "publish"}
    /\ calls' = Append(calls, Call("except", "process_event", pc))
    /\ results' = [InitialResults(event) EXCEPT !.error = [message |-> "str(e)"]]
    /\ returned' = results'
    /\ pc' = "done"
    /\ UNCHANGED <<env, detectors, AUTO_REMEDIATION, dry_run, channels, cloud, cloud0,
                   inv, event, di,
                   detection_result, ai, remediation_results,
                   factors, detectLog, remLog>>

\* main.py 238-241: an exception raised inside the try block but outside
\* the per-call handlers.
OrchestratorFault ==
    /\ pc \in {"detect", "ml", "publish"}
    /\ calls' = Append(calls, Call("except", "process_event", pc))
    /\ results' = [results EXCEPT !.error = [message |-> "str(e)"]]
    /\ returned' = results'
    /\ pc' = "done"
    /\ UNCHANGED <<env, detectors, AUTO_REMEDIATION, dry_run, channels, cloud, cloud0,
                   inv, event, di,
                   detection_result, ai, remediation_results,
                   factors, detectLog, remLog>>

\* process_event itself reads only eventID and eventName (159-160).
PipelineEvents ==
    {[eventID |-> "evt-1", eventName |-> Absent]}

EnableFlagSets ==
    {f \in SUBSET {RegisteredDetectors[i] : i \in 1..Len(RegisteredDetectors)} :
        Cardinality(f) <= MaxEnabled}

Init ==
    /\ pc = "idle"
    /\ env = None
    /\ detectors \in {initialize_detectors(f) : f \in EnableFlagSets}
    /\ AUTO_REMEDIATION \in BOOLEAN
    /\ dry_run = FALSE
    /\ channels = {}
    /\ cloud = None
    /\ cloud0 = None
    /\ inv = None
    /\ event \in PipelineEvents
    /\ di = 0
    /\ detection_result = None
    /\ ai = 0
    /\ remediation_results = None
    /\ results = None
    /\ returned = None
    /\ factors = None
    /\ calls = <<>>
    /\ detectLog = <<>>
    /\ remLog = <<>>

Next ==
    \/ process_event_begin
    \/ DetectStep
    \/ RemediateStep(RemediateOutcomes)
    \/ DispatchReturn
    \/ LoopExit
    \/ AnalyzeStep
    \/ PublishStep

Spec == Init /\ [][Next]_vars

NextFault == Next \/ OrchestratorFault

SpecFault == Init /\ [][NextFault]_vars

----------------------------------------------------------------------------
(* The dispatcher on its own: _execute_remediation applied to one finding. *)

ActionNames == RegisteredRemediators \cup {"unregistered_action"}

ActionLists == UNION {[1..k -> ActionNames] : k \in 0..MaxActions}

DispatchFindings ==
    {DetectionResult(TRUE, Score(90, 1), "Severity.CRITICAL",
                     [kind |-> "finding"], acts, TRUE, "PublicBucketDetector") :
        acts \in ActionLists}

InitDispatch ==
    /\ pc = "dispatch_idle"
    /\ env = None
    /\ detection_result \in DispatchFindings
    /\ detectors = <<>>
    /\ AUTO_REMEDIATION = TRUE
    /\ dry_run = FALSE
    /\ channels = {}
    /\ cloud = None
    /\ cloud0 = None
    /\ inv = None
    /\ event = None
    /\ di = 0
    /\ ai = 0
    /\ remediation_results = None
    /\ results = None
    /\ returned = None
    /\ factors = None
    /\ calls = <<>>
    /\ detectLog = <<>>
    /\ remLog = <<>>

\* main.py 253-257
DispatchBegin ==
    /\ pc = "dispatch_idle"
    /\ remediation_results' = InitialRemediation
    /\ ai' = 1
    /\ pc' = "remediate"
    /\ calls' = Append(calls, Call("_execute_remediation",
                                   detection_result.detector_name, "enter"))
    /\ UNCHANGED <<env, detectors, AUTO_REMEDIATION, dry_run, channels, cloud, cloud0,
                   inv, event, di,
                   detection_result, results, returned, factors, detectLog,
                   remLog>>

\* main.py 282
DispatchDone ==
    /\ pc = "remediate"
    /\ ai > Len(detection_result.recommended_actions)
    /\ returned' = remediation_results
    /\ pc' = "dispatch_done"
    /\ UNCHANGED <<env, detectors, AUTO_REMEDIATION, dry_run, channels, cloud, cloud0,
                   inv, event, di,
                   detection_result, ai, remediation_results, results,
                   factors, calls, detectLog, remLog>>

\* The remediators of this repository catch their own exceptions, so a
\* remediate call made by the service returns success or failure.
NextDispatch ==
    \/ DispatchBegin
    \/ RemediateStep(RemediateReturns)
    \/ DispatchDone

SpecDispatch == InitDispatch /\ [][NextDispatch]_vars

\* The dispatcher with remediators that may also raise.
NextDispatchFault ==
    \/ DispatchBegin
    \/ RemediateStep(RemediateOutcomes)
    \/ DispatchDone

SpecDispatchFault == InitDispatch /\ [][NextDispatchFault]_vars

----------------------------------------------------------------------------
(* Views of the call history used by the properties. *)

CallsOf(op) == SelectSeq(calls, LAMBDA c : c.op = op)

Who(cs) == [i \in 1..Len(cs) |-> cs[i].who]

ThreatsSeen ==
    SelectSeq(detectLog, LAMBDA x : x.outcome # Raise /\ x.outcome.is_threat)

Faulted == \E i \in 1..Len(calls) : calls[i].op = "except"

----------------------------------------------------------------------------
(* Properties of process_event. *)

\* C2: process_event always returns the aggregated record (event_id,
\* event_name, timestamp, detections, remediations, ml_analysis); when a
\* failure is caught by the top-level handler the record returned carries
\* an error field and still holds every detection and remediation collected
\* before the failure.
C2_AlwaysReturnsAggregate ==
    /\ (pc # "done" => ENABLED NextFault)
    /\ (pc = "done" =>
          /\ returned = results
          /\ returned.event_id = Get(event, "eventID", "unknown")
          /\ returned.event_name = Get(event, "eventName", "unknown")
          /\ returned.timestamp = "utcnow"
          /\ returned.detections =
                [i \in 1..Len(ThreatsSeen) |->
                    DetectionEntry(ThreatsSeen[i].detector, ThreatsSeen[i].outcome)]
          /\ Len(returned.remediations) = Len(CallsOf("_execute_remediation"))
          /\ (Faulted <=> returned.error # None))

C2_Witness ==
    /\ pc = "done"
    /\ Faulted
    /\ returned.error # None
    /\ Len(returned.detections) >= 1
    /\ Len(returned.remediations) >= 1

\* C3: a detector whose detect raises is skipped and every later detector
\* is still called; the analyzer is called exactly once per event; an
\* exception of the analyzer leaves ml_analysis unset and prevents neither
\* the publish decision nor the return of the record.
C3_FaultsIsolated ==
    /\ (pc = "detect" =>
          Who(CallsOf("detect")) = SubSeq(detectors, 1, Len(CallsOf("detect"))))
    /\ (pc \in {"ml", "publish", "done"} => Who(CallsOf("detect")) = detectors)
    /\ Len(CallsOf("analyze")) = (IF pc \in {"publish", "done"} THEN 1 ELSE 0)
    /\ (pc # "done" => ENABLED Next)
    /\ (pc = "done" =>
          /\ returned = results
          /\ returned.error = None
          /\ (CallsOf("analyze")[1].out = "raise" => returned.ml_analysis = None)
          /\ (Len(CallsOf("_publish_alert")) = 1 <=>
                \/ returned.detections # <<>>
                \/ (returned.ml_analysis # None /\ returned.ml_analysis.is_anomaly))
          /\ Len(CallsOf("_publish_alert")) <= 1)

C3_Witness ==
    /\ pc = "done"
    /\ Len(detectors) = 2
    /\ CallsOf("detect")[1].out = "raise"
    /\ CallsOf("detect")[2].out = "return"
    /\ Len(returned.detections) = 1
    /\ CallsOf("analyze")[1].out = "raise"
    /\ Len(CallsOf("_publish_alert")) = 1

\* C4: the dispatcher is invoked for a detector result exactly when the
\* result is a threat, asks for auto-remediation and the global switch is
\* on; detections holds exactly the threat results in registration order;
\* with the switch off remediations stays empty and no remediator is called.
C4_DispatchGuard ==
    LET wanted == SelectSeq(detectLog, LAMBDA x :
                     /\ x.outcome # Raise
                     /\ x.outcome.is_threat
                     /\ x.outcome.auto_remediate
                     /\ AUTO_REMEDIATION)
    IN  /\ Who(CallsOf("_execute_remediation")) =
              [i \in 1..Len(wanted) |-> wanted[i].detector]
        /\ (results # None =>
              /\ results.detections =
                    [i \in 1..Len(ThreatsSeen) |->
                        DetectionEntry(ThreatsSeen[i].detector, ThreatsSeen[i].outcome)]
              /\ Len(results.remediations) + (IF pc = "remediate" THEN 1 ELSE 0)
                    = Len(wanted))
        /\ (~AUTO_REMEDIATION =>
              /\ CallsOf("remediate") = <<>>
              /\ (results # None => results.remediations = <<>>))

C4_Witness ==
    /\ pc = "done"
    /\ AUTO_REMEDIATION
    /\ Len(returned.detections) = 2
    /\ Len(returned.remediations) = 1
    /\ ~detectLog[1].outcome.auto_remediate
    /\ detectLog[2].outcome.auto_remediate

C4_WitnessSwitchOff ==
    /\ pc = "done"
    /\ ~AUTO_REMEDIATION
    /\ \E i \in 1..Len(detectLog) :
          /\ detectLog[i].outcome # Raise
          /\ detectLog[i].outcome.is_threat
          /\ detectLog[i].outcome.auto_remediate

\* C5 as stated: all detect calls complete before the analyzer is called,
\* the analyzer is called before any remediate call, and all remediate
\* calls complete before the publish call.
C5_AnalyzerBeforeRemediation ==
    \A j \in 1..Len(calls) :
       /\ (calls[j].op = "analyze" =>
              /\ Who(CallsOf("detect")) = detectors
              /\ \A i \in 1..Len(calls) : calls[i].op = "detect" => i < j)
       /\ (calls[j].op = "remediate" =>
              \E i \in 1..(j - 1) : calls[i].op = "analyze")
       /\ (calls[j].op \in {"_publish_alert", "publish"} =>
              \A i \in 1..Len(calls) : calls[i].op = "remediate" => i < j)

\* C5, amended: the remediate calls for a finding directly follow the
\* detect call that produced it, before the next detector runs; every
\* detect and remediate call completes before the analyzer is called; the
\* analyzer is called before the publish call.
C5_RemediationInsideDetectorLoop ==
    \A j \in 1..Len(calls) :
       /\ (calls[j].op = "analyze" =>
              /\ Who(CallsOf("detect")) = detectors
              /\ \A i \in 1..Len(calls) :
                    calls[i].op \in {"detect", "remediate"} => i < j)
       /\ (calls[j].op = "remediate" =>
              \E i \in 2..(j - 1) :
                 /\ calls[i].op = "_execute_remediation"
                 /\ calls[i - 1].op = "detect"
                 /\ calls[i - 1].who = calls[i].who
                 /\ \A k \in (i + 1)..j : calls[k].op = "remediate")
       /\ (calls[j].op \in {"_publish_alert", "publish"} =>
              \E i \in 1..(j - 1) : calls[i].op = "analyze")

C5_Witness ==
    /\ pc = "done"
    /\ Len(CallsOf("detect")) = 2
    /\ Len(CallsOf("remediate")) >= 1
    /\ calls[1].op = "detect"
    /\ calls[2].op = "_execute_remediation"
    /\ calls[3].op = "remediate"
    /\ Len(CallsOf("analyze")) = 1
    /\ Len(CallsOf("_publish_alert")) = 1

\* C6: the publish boundary is called exactly once when detections is
\* non-empty or the analyzer flags an anomaly and never otherwise; a
\* failing publish is absorbed and leaves no error field.
C6_PublishedExactlyWhenWanted ==
    pc = "done" =>
       /\ Len(CallsOf("publish")) =
             (IF \/ returned.detections # <<>>
                 \/ (returned.ml_analysis # None /\ returned.ml_analysis.is_anomaly)
              THEN 1 ELSE 0)
       /\ returned.error = None

----------------------------------------------------------------------------
(* Properties of the dispatcher. *)

\* The recommended actions that have a registered remediator, in list order.
DueActions ==
    SelectSeq(detection_result.recommended_actions,
              LAMBDA a : a \in RegisteredRemediators)

\* C7: the dispatcher calls remediate for every recommended action that has
\* a registered remediator, whether or not an earlier action failed or
\* raised; the aggregate success flag is true exactly when every attempted
\* action returned success and none raised.
C7_EveryActionAttempted ==
    pc = "dispatch_done" =>
       /\ Who(CallsOf("remediate")) = DueActions
       /\ (returned.success <=>
              \A k \in 1..Len(calls) :
                 calls[k].op = "remediate" => calls[k].out = "success")

C7_Witness ==
    /\ pc = "dispatch_done"
    /\ Len(CallsOf("remediate")) = 3
    /\ CallsOf("remediate")[1].out = "raise"
    /\ CallsOf("remediate")[2].out = "failure"
    /\ CallsOf("remediate")[3].out = "success"
    /\ ~returned.success

\* C8: actions are executed in the order of recommended_actions without
\* de-duplication (k occurrences give k remediate calls and k entries of
\* actions_taken); an action without a registered remediator is skipped,
\* adds no error, leaves the success flag alone, and the remaining actions
\* are still attempted.
C8_ListOrderNoDedup ==
    /\ (pc = "remediate" =>
          Who(CallsOf("remediate")) =
             SelectSeq(SubSeq(detection_result.recommended_actions, 1, ai - 1),
                       LAMBDA a : a \in RegisteredRemediators))
    /\ (pc = "dispatch_done" =>
          /\ Who(CallsOf("remediate")) = DueActions
          /\ [k \in 1..Len(returned.actions_taken) |->
                 returned.actions_taken[k].action] = DueActions
          /\ Len(returned.errors) =
                Len(SelectSeq(CallsOf("remediate"), LAMBDA c : c.out # "success"))
          /\ (returned.success <=> returned.errors = <<>>))

C8_Witness ==
    /\ pc = "dispatch_done"
    /\ detection_result.recommended_actions =
          <<"alert_team", "unregistered_action", "alert_team">>
    /\ Len(CallsOf("remediate")) = 2
    /\ Len(returned.actions_taken) = 2
    /\ returned.success
    /\ returned.errors = <<>>

----------------------------------------------------------------------------
(* RiskFusion on its own: _calculate_risk_score applied to one factor map. *)

FactorNames ==
    {"public_policy", "public_acl", "sensitive_bucket", "off_hours", "wildcard"}

\* Factor scores; 120 lies outside the documented 0-100 range and makes the
\* cap of line 76 bite.
FactorValues == {0, 45, 100, 120}

FactorMaps ==
    UNION {[ks -> FactorValues] :
              ks \in {k \in SUBSET FactorNames : Cardinality(k) <= MaxFactors}}

InitRisk ==
    /\ pc = "risk_idle"
    /\ env = None
    /\ factors \in FactorMaps
    /\ detectors = <<>>
    /\ AUTO_REMEDIATION = TRUE
    /\ dry_run = FALSE
    /\ channels = {}
    /\ cloud = None
    /\ cloud0 = None
    /\ inv = None
    /\ event = None
    /\ di = 0
    /\ detection_result = None
    /\ ai = 0
    /\ remediation_results = None
    /\ results = None
    /\ returned = None
    /\ calls = <<>>
    /\ detectLog = <<>>
    /\ remLog = <<>>

\* detectors/__init__.py 58-76
FuseStep ==
    /\ pc = "risk_idle"
    /\ returned' = calculate_risk_score(factors)
    /\ pc' = "risk_done"
    /\ UNCHANGED <<env, detectors, AUTO_REMEDIATION, dry_run, channels, cloud, cloud0,
                   inv, event, di,
                   detection_result, ai, remediation_results, results,
                   factors, calls, detectLog, remLog>>

NextRisk == FuseStep

SpecRisk == InitRisk /\ [][NextRisk]_vars

\* C10: for every factor map F the fused score is min(100, arithmetic mean
\* of the values of F), and 0 when F is empty.
C10_FusedScoreIsCappedMean ==
    pc = "risk_done" =>
       LET n == Cardinality(DOMAIN factors)
           total == SumOver(factors, DOMAIN factors)
       IN  IF n = 0
           THEN ScoreEq(returned, Score(0, 1))
           ELSE /\ returned.den > 0
                /\ returned.num * n <= total * returned.den
                /\ returned.num <= 100 * returned.den
                /\ \/ returned.num * n = total * returned.den
                   \/ returned.num = 100 * returned.den

C10_Witness ==
    /\ pc = "risk_done"
    /\ Cardinality(DOMAIN factors) = 2
    /\ \A k \in DOMAIN factors : factors[k] <= 100
    /\ SumOver(factors, DOMAIN factors) = 145
    /\ ScoreEq(returned, Score(145, 2))

C10_WitnessCapped ==
    /\ pc = "risk_done"
    /\ SumOver(factors, DOMAIN factors) > 100 * Cardinality(DOMAIN factors)
    /\ ScoreEq(returned, Score(100, 1))

C10_WitnessEmpty ==
    /\ pc = "risk_done"
    /\ DOMAIN factors = {}
    /\ ScoreEq(returned, Score(0, 1))

----------------------------------------------------------------------------
(* The three remediators: remediators/*.py.  A remediate call is modelled  *)
(* by the set of its possible runs, each a result together with the        *)
(* sequence of external calls it made.                                     *)

NoAction == "<no action_taken>"

\* remediators/__init__.py 45-57 and 59-71
create_success_result(action_taken) == [success |-> TRUE, action_taken |-> action_taken]
create_error_result == [success |-> FALSE, action_taken |-> NoAction, error |-> "error"]

\* revoke_access.py 70-74: the error result of the branch for a detector
\* that has no revocation of its own.
UnsupportedDetector == [create_error_result EXCEPT !.error = "Unsupported detector type"]

\* A call to AWS or to a webhook: the API, what it was made on, the answer.
External(api, target, out) ==
    [op |-> "external", who |-> api, target |-> target, out |-> out]

Target(kind, entity, policy) == [kind |-> kind, entity |-> entity, policy |-> policy]

\* A remediator is modelled by its next step after the external calls hist
\* it has made so far: either the next external call or the value it ends with.
Request(api, target) == [done |-> FALSE, api |-> api, target |-> target]
Done(result) == [done |-> TRUE, result |-> result]

Last(hist) == hist[Len(hist)]

\* Answers that boto3 raises as botocore.exceptions.ClientError, and failures
\* it raises as any other exception (connection errors, time-outs).
ClientErrors ==
    {"ClientError", "NoSuchBucketPolicy", "NoSuchWebsiteConfiguration", "NoSuchEntity"}
OtherErrors == {"BotoCoreError"}

Bucket == "my-bucket"
AdminArn == "arn:aws:iam::aws:policy/AdministratorAccess"
ReadOnlyArn == "arn:aws:iam::aws:policy/ReadOnlyAccess"
RoleArn == "arn:aws:iam::123456789012:role/Admin"

UserEvents == {"AttachUserPolicy", "PutUserPolicy"}
RoleEvents == {"AttachRolePolicy", "PutRolePolicy", "UpdateAssumeRolePolicy"}
GroupEvents == {"AttachGroupPolicy", "PutGroupPolicy"}
AttachEvents == {"AttachUserPolicy", "AttachRolePolicy", "AttachGroupPolicy"}
PutEvents == {"PutUserPolicy", "PutRolePolicy", "PutGroupPolicy"}

\* The actions AdminGrantDetector reports on (admin_grant.py 25-34).
AdminGrantEvents ==
    AttachEvents \cup PutEvents \cup {"CreateAccessKey", "UpdateAssumeRolePolicy"}

\* 'User' in event_name, 'Role' in event_name, 'Group' in event_name
KindOf(event_name) ==
    IF event_name \in UserEvents THEN "User"
    ELSE IF event_name \in RoleEvents THEN "Role" ELSE "Group"

NoParams ==
    [userName |-> Absent, roleName |-> Absent, groupName |-> Absent,
     policyArn |-> Absent, policyName |-> Absent]

\* Faulty variant: the policy named in the event is ignored and the
\* entity's other attachment or inline policy is removed.
revoke_iam_permissions_other_policy(details, hist) ==
    LET event_name == Get(details, "event_name", "")
        p == details.request_parameters
        entity_name ==
            IF Get(p, "userName", "") # "" THEN p.userName
            ELSE IF Get(p, "roleName", "") # "" THEN p.roleName
            ELSE Get(p, "groupName", "")
    IN IF hist # <<>>
       THEN IF Last(hist).out = "ok"
            THEN Done(create_success_result("revoke_iam_permissions"))
            ELSE IF Last(hist).out \in ClientErrors
                 THEN Done(create_error_result)
                 ELSE Done(Raise)
       ELSE CASE event_name \in AttachEvents ->
                   IF entity_name # "" /\ Get(p, "policyArn", "") # ""
                   THEN Request("iam.detach_policy",
                                Target(KindOf(event_name), entity_name, ReadOnlyArn))
                   ELSE Done(create_error_result)
              [] event_name \in PutEvents ->
                   IF entity_name # "" /\ Get(p, "policyName", "") # ""
                   THEN Request("iam.delete_policy",
                                Target(KindOf(event_name), entity_name, "s3-read"))
                   ELSE Done(create_error_result)
              [] event_name = "CreateAccessKey" ->
                   Done(create_success_result("revoke_iam_permissions"))
              [] OTHER -> Done(create_error_result)

\* revoke_access.py 83-169.  Only ClientError is handled here; any other
\* exception propagates to remediate.
revoke_iam_permissions(details, hist) ==
    LET event_name == Get(details, "event_name", "")
        p == details.request_parameters
        entity_name ==
            IF Get(p, "userName", "") # "" THEN p.userName
            ELSE IF Get(p, "roleName", "") # "" THEN p.roleName
            ELSE Get(p, "groupName", "")
        named ==
            CASE event_name = "AttachUserPolicy" -> Get(p, "userName", "")
              [] event_name = "AttachRolePolicy" -> Get(p, "roleName", "")
              [] event_name = "AttachGroupPolicy" -> Get(p, "groupName", "")
              [] OTHER -> ""
    IN IF hist # <<>>
       THEN IF Last(hist).out = "ok"
            THEN Done(create_success_result("revoke_iam_permissions"))
            ELSE IF Last(hist).out \in ClientErrors
                 THEN Done(create_error_result)
                 ELSE Done(Raise)
       ELSE CASE event_name \in AttachEvents ->
                   IF named # "" /\ Get(p, "policyArn", "") # ""
                   THEN Request("iam.detach_policy",
                                Target(KindOf(event_name), named, p.policyArn))
                   ELSE Done(create_error_result)
              [] event_name \in PutEvents ->
                   IF entity_name # "" /\ Get(p, "policyName", "") # ""
                   THEN Request("iam.delete_policy",
                                Target(KindOf(event_name), entity_name, p.policyName))
                   ELSE Done(create_error_result)
              [] event_name = "CreateAccessKey" ->
                   Done(create_success_result("revoke_iam_permissions"))
              [] OTHER -> Done(create_error_result)

\* Faulty variant: the deny policy is attached, under a name that differs
\* from call to call.
revoke_assumed_role_timestamped(details, hist) ==
    IF Get(details, "assumed_role", "") = "" THEN Done(create_error_result)
    ELSE IF hist = <<>>
         THEN Request("iam.put_role_policy",
                      Target("Role", "Admin",
                             IF <<"Role", "Admin", "EmergencyDeny-1">> \in cloud.inline
                             THEN "EmergencyDeny-2" ELSE "EmergencyDeny-1"))
    ELSE IF Last(hist).out = "ok"
         THEN Done(create_success_result("attach_emergency_deny_policy"))
    ELSE IF Last(hist).out \in ClientErrors THEN Done(create_error_result)
    ELSE Done(Raise)

\* revoke_access.py 171-242: with a role named, line 217 evaluates
\* os.time.time(); the os module has no attribute time, so AttributeError is
\* raised before put_role_policy (219) is reached.
revoke_assumed_role(details, hist) ==
    IF Get(details, "assumed_role", "") = ""
    THEN Done(create_error_result)
    ELSE Done(Raise)

\* revoke_access.py 244-295
revoke_bucket_permissions(details, hist) ==
    LET bucket_name == Get(details, "bucket_name", "")
        t == Target("Bucket", bucket_name, "")
    IN IF bucket_name = "" THEN Done(create_error_result)
       ELSE IF hist = <<>> THEN Request("s3.delete_bucket_policy", t)
       ELSE IF Last(hist).out \in OtherErrors THEN Done(Raise)
       ELSE IF Last(hist).who = "s3.delete_bucket_policy"
            THEN IF Last(hist).out \in {"ok", "NoSuchBucketPolicy"}
                 THEN Request("s3.put_bucket_acl", t)
                 ELSE Done(create_error_result)
       ELSE Done(create_success_result("revoke_bucket_permissions"))

\* The handler at revoke_access.py 76-81, block_public.py 65-70 and 168-178,
\* alert_team.py 93-98: an exception becomes an error result.
CatchAll(step) ==
    IF step.done /\ step.result = Raise THEN Done(create_error_result) ELSE step

\* Faulty variant: a finding of any other detector is remediated by the
\* event it names.
RevokeAccessRemediator_remediate_by_event(f, hist) ==
    IF dry_run THEN Done(create_success_result("dry_run"))
    ELSE CatchAll(
           CASE f.detector_name = "CrossAccountDetector" ->
                  revoke_assumed_role(f.details, hist)
             [] f.detector_name = "PublicBucketDetector" ->
                  revoke_bucket_permissions(f.details, hist)
             [] OTHER -> revoke_iam_permissions(f.details, hist))

\* revoke_access.py 41-81
RevokeAccessRemediator_remediate(f, hist) ==
    IF dry_run THEN Done(create_success_result("dry_run"))
    ELSE CatchAll(
           CASE f.detector_name = "AdminGrantDetector" ->
                  revoke_iam_permissions(f.details, hist)
             [] f.detector_name = "CrossAccountDetector" ->
                  revoke_assumed_role(f.details, hist)
             [] f.detector_name = "PublicBucketDetector" ->
                  revoke_bucket_permissions(f.details, hist)
             [] OTHER -> Done(UnsupportedDetector))

\* Faulty variant: a bucket without a policy makes the remediation fail.
block_bucket_public_access_strict(bucket_name, hist) ==
    LET t == Target("Bucket", bucket_name, "")
        last == Last(hist)
    IN IF hist = <<>> THEN Request("s3.put_public_access_block", t)
       ELSE IF last.out \in OtherErrors THEN Done(create_error_result)
       ELSE CASE last.who = "s3.put_public_access_block" ->
                   IF last.out = "ok" THEN Request("s3.get_bucket_policy", t)
                   ELSE Done(create_error_result)
              [] last.who = "s3.get_bucket_policy" ->
                   IF last.out = "wildcard" THEN Request("s3.delete_bucket_policy", t)
                   ELSE IF last.out \in {"single_statement", "NoSuchBucketPolicy"}
                        THEN Done(create_error_result)
                   ELSE Request("s3.put_bucket_acl", t)
              [] last.who = "s3.delete_bucket_policy" -> Request("s3.put_bucket_acl", t)
              [] last.who = "s3.put_bucket_acl" -> Request("s3.delete_bucket_website", t)
              [] OTHER -> Done(create_success_result("block_public_access"))

\* block_public.py 72-178.  The lookup of the bucket policy answers with the
\* policy; a policy whose Statement is one object instead of a list makes the
\* scan at 111-113 raise AttributeError, which like every exception other
\* than ClientError leaves through the handler at 168.
block_bucket_public_access(bucket_name, hist) ==
    LET t == Target("Bucket", bucket_name, "")
        last == Last(hist)
    IN IF hist = <<>> THEN Request("s3.put_public_access_block", t)
       ELSE IF last.out \in OtherErrors THEN Done(create_error_result)
       ELSE CASE last.who = "s3.put_public_access_block" ->
                   IF last.out = "ok" THEN Request("s3.get_bucket_policy", t)
                   ELSE Done(create_error_result)
              [] last.who = "s3.get_bucket_policy" ->
                   IF last.out = "wildcard" THEN Request("s3.delete_bucket_policy", t)
                   ELSE IF last.out = "single_statement" THEN Done(create_error_result)
                   ELSE Request("s3.put_bucket_acl", t)
              [] last.who = "s3.delete_bucket_policy" -> Request("s3.put_bucket_acl", t)
              [] last.who = "s3.put_bucket_acl" -> Request("s3.delete_bucket_website", t)
              [] OTHER -> Done(create_success_result("block_public_access"))

\* block_public.py 34-70: the bucket name is looked up before the dry-run
\* flag is.
BlockPublicRemediator_remediate(f, hist) ==
    IF Get(f.details, "bucket_name", "") = "" THEN Done(create_error_result)
    ELSE IF dry_run THEN Done(create_success_result("dry_run"))
    ELSE block_bucket_public_access(f.details.bucket_name, hist)

Configured(ordered) == SelectSeq(ordered, LAMBDA c : c \in channels)

\* alert_team.py 32-98: the dry-run flag is not read.  The webhooks are
\* posted to in the order slack, teams; a channel is entered in alerts_sent
\* when its send returned, whatever it returned (52-53, 61-62).  The e-mail
\* channel (270-307) only logs and returns.
AlertTeamRemediator_remediate(f, hist) ==
    LET webhooks == Configured(<<"slack", "teams">>)
        alerts_sent ==
            {webhooks[i] : i \in {j \in 1..Len(hist) : hist[j].out \notin OtherErrors}}
               \cup (channels \cap {"email"})
    IN IF Len(hist) < Len(webhooks)
       THEN Request("webhook.post", Target("Webhook", webhooks[Len(hist) + 1], ""))
       ELSE IF alerts_sent # {}
            THEN Done(create_success_result("send_alerts"))
            ELSE Done(create_error_result)

remediate(r, f, hist) ==
    CASE r = "revoke_access" -> RevokeAccessRemediator_remediate(f, hist)
      [] r = "block_public" -> BlockPublicRemediator_remediate(f, hist)
      [] r = "alert_team" -> AlertTeamRemediator_remediate(f, hist)

\* The resources: one bucket, and the managed-policy attachments and inline
\* policies of the IAM entities.
Answer(out, c) == [out |-> out, cloud |-> c]

\* What a call can be answered with in state c, and the state it leaves.
\* Besides the answer the state determines, every call may fail with an
\* error of the service or of the connection, leaving the state as it was.
Respond(c, api, t) ==
    LET key == <<t.kind, t.entity, t.policy>>
        answered ==
          CASE api = "s3.put_public_access_block" ->
                 {Answer("ok", [c EXCEPT !.pab = TRUE])}
            [] api = "s3.get_bucket_policy" ->
                 {Answer(IF c.policy = "none" THEN "NoSuchBucketPolicy" ELSE c.policy, c)}
            [] api = "s3.delete_bucket_policy" ->
                 {Answer("ok", [c EXCEPT !.policy = "none"])}
            [] api = "s3.put_bucket_acl" ->
                 {Answer("ok", [c EXCEPT !.acl = "private"])}
            [] api = "s3.delete_bucket_website" ->
                 IF c.website THEN {Answer("ok", [c EXCEPT !.website = FALSE])}
                 ELSE {Answer("ok", c), Answer("NoSuchWebsiteConfiguration", c)}
            [] api = "iam.detach_policy" ->
                 IF key \in c.attached
                 THEN {Answer("ok", [c EXCEPT !.attached = @ \ {key}])}
                 ELSE {Answer("NoSuchEntity", c)}
            [] api = "iam.delete_policy" ->
                 IF key \in c.inline
                 THEN {Answer("ok", [c EXCEPT !.inline = @ \ {key}])}
                 ELSE {Answer("NoSuchEntity", c)}
            [] api = "iam.put_role_policy" ->
                 {Answer("ok", [c EXCEPT !.inline = @ \cup {key}])}
            [] api = "webhook.post" ->
                 {Answer("ok", c), Answer("non200", c)}
    IN answered
       \cup {Answer(o, c) : o \in OtherErrors}
       \cup (IF api = "webhook.post" THEN {} ELSE {Answer("ClientError", c)})

\* Every way one remediate call can run from state c: its result, the
\* external calls it made, and the state it leaves.
RECURSIVE Runs(_, _, _, _)
Runs(r, f, hist, c) ==
    LET step == remediate(r, f, hist)
    IN IF step.done
       THEN {[result |-> step.result, ext |-> hist, cloud |-> c]}
       ELSE UNION {Runs(r, f, Append(hist, External(step.api, step.target, a.out)),
                        a.cloud) :
                      a \in Respond(c, step.api, step.target)}

DetectorNames ==
    {RegisteredDetectors[i] : i \in 1..Len(RegisteredDetectors)}
       \cup {"MachineIdentityDetector"}

\* The fields of details the remediators read (admin_grant.py 104-113,
\* cross_account.py 85-94, public_bucket.py 84-90).
RemediationDetails(bucket_name, assumed_role, event_name, request_parameters) ==
    [bucket_name |-> bucket_name, assumed_role |-> assumed_role,
     event_name |-> event_name, request_parameters |-> request_parameters]

EntityOf(kind) ==
    CASE kind = "User" -> "alice" [] kind = "Role" -> "Admin" [] kind = "Group" -> "ops"

\* requestParameters of an Attach*Policy / Put*Policy / CreateAccessKey
\* event: the entity key of the event's kind, and the policy it names; a
\* field may be missing.
RequestParameters(event_name) ==
    LET kind == IF event_name = "CreateAccessKey" THEN "User" ELSE KindOf(event_name)
    IN {[userName |-> IF kind = "User" THEN e ELSE Absent,
         roleName |-> IF kind = "Role" THEN e ELSE Absent,
         groupName |-> IF kind = "Group" THEN e ELSE Absent,
         policyArn |-> IF event_name \in AttachEvents THEN pol ELSE Absent,
         policyName |-> IF event_name \in PutEvents THEN pol ELSE Absent] :
           e \in {Absent, EntityOf(kind)},
           pol \in {Absent,
                    IF event_name \in AttachEvents THEN AdminArn ELSE "inline-admin"}}

Finding(details, n) ==
    DetectionResult(TRUE, Score(90, 1), "Severity.CRITICAL", details,
                    <<"revoke_access", "block_public", "alert_team">>, TRUE, n)

AdminGrantFindings ==
    UNION {{Finding(RemediationDetails(Absent, Absent, e, p), "AdminGrantDetector") :
               p \in RequestParameters(e)} : e \in AdminGrantEvents}

PublicBucketFindings ==
    {Finding(RemediationDetails(b, Absent, "PutBucketPolicy", NoParams),
             "PublicBucketDetector") : b \in {"", Bucket}}

OtherFindings ==
    {Finding(RemediationDetails(Absent, r, "AssumeRole", NoParams),
             "CrossAccountDetector") : r \in {"", RoleArn}}
    \cup {Finding(RemediationDetails(Absent, Absent, "CreatePolicyVersion", NoParams),
                   "PolicyChangeDetector")}
    \cup {Finding(RemediationDetails(Absent, Absent, "AttachRolePolicy", p),
                   "MachineIdentityDetector") :
             p \in RequestParameters("AttachRolePolicy")}

RemediationFindings == AdminGrantFindings \cup PublicBucketFindings \cup OtherFindings

AlertChannels == {"slack", "teams", "email"}

AttachedEverywhere ==
    {<<"User", "alice", AdminArn>>, <<"User", "alice", ReadOnlyArn>>,
     <<"Role", "Admin", AdminArn>>, <<"Group", "ops", AdminArn>>}
InlineEverywhere ==
    {<<"User", "alice", "inline-admin">>, <<"Role", "Admin", "inline-admin">>,
     <<"Group", "ops", "inline-admin">>, <<"Role", "Admin", "s3-read">>}

Cloud(pab, policy, acl, website, attached, inline) ==
    [pab |-> pab, policy |-> policy, acl |-> acl, website |-> website,
     attached |-> attached, inline |-> inline]

BucketClouds ==
    {Cloud(pab, policy, acl, website, AttachedEverywhere, InlineEverywhere) :
        pab \in BOOLEAN,
        policy \in {"none", "wildcard", "restricted", "single_statement"},
        acl \in {"private", "public-read"},
        website \in BOOLEAN}

IamClouds ==
    {Cloud(FALSE, "wildcard", "public-read", TRUE, a, i) :
        a \in {AttachedEverywhere, {<<"User", "alice", ReadOnlyArn>>}},
        i \in {InlineEverywhere, {<<"Role", "Admin", "s3-read">>}}}

Scenario(f, c, chs) == [finding |-> f, cloud |-> c, channels |-> chs]

\* The situations a remediate call is studied in: a bucket finding on every
\* state of the bucket, an admin-grant finding on several states of IAM,
\* and the remaining findings under every configuration of the channels.
RemediationScenarios ==
    {Scenario(f, c, {}) : f \in PublicBucketFindings, c \in BucketClouds}
    \cup {Scenario(f, c, {}) : f \in AdminGrantFindings, c \in IamClouds}
    \cup {Scenario(f, Cloud(FALSE, "none", "private", FALSE,
                            AttachedEverywhere, InlineEverywhere), chs) :
             f \in OtherFindings, chs \in SUBSET AlertChannels}

InitRemediate ==
    /\ pc = "remediator_idle"
    /\ env = None
    /\ dry_run \in BOOLEAN
    /\ \E s \in RemediationScenarios :
          /\ detection_result = s.finding
          /\ cloud = s.cloud
          /\ channels = s.channels
    /\ cloud0 = cloud
    /\ inv = None
    /\ detectors = <<>>
    /\ AUTO_REMEDIATION = TRUE
    /\ event = None
    /\ di = 0
    /\ ai = 0
    /\ remediation_results = None
    /\ results = None
    /\ returned = None
    /\ factors = None
    /\ calls = <<>>
    /\ detectLog = <<>>
    /\ remLog = <<>>

Returned(r, result) ==
    Call("remediate", r, IF result.success THEN "success" ELSE "error")

\* One remediate call on remediator r, run to its end.
RunRemediate(r, next_pc) ==
    /\ \E run \in Runs(r, detection_result, <<>>, cloud) :
          /\ returned' = run.result
          /\ calls' = calls \o <<Returned(r, run.result)>> \o run.ext
          /\ cloud' = run.cloud
    /\ pc' = next_pc
    /\ UNCHANGED <<env, detectors, AUTO_REMEDIATION, dry_run, channels, cloud0, inv,
                   event, di, detection_result, ai, remediation_results,
                   results, factors, detectLog, remLog>>

RemediateCall(r) ==
    /\ pc = "remediator_idle"
    /\ RunRemediate(r, "remediator_done")

\* The same remediator invoked a second time on the same finding.
RemediateAgain ==
    /\ pc = "remediator_done"
    /\ RunRemediate(calls[1].who, "remediator_repeated")

NextRemediate ==
    \/ RemediateCall("revoke_access")
    \/ RemediateCall("block_public")
    \/ RemediateCall("alert_team")
    \/ RemediateAgain

SpecRemediate == InitRemediate /\ [][NextRemediate]_vars

\* C9: with the dry-run flag set, a remediate call on any of the three
\* remediators returns success with action_taken = "dry_run" and makes no
\* external call.
C9_DryRunShortCircuits ==
    (pc = "remediator_done" /\ dry_run) =>
       /\ returned.success
       /\ returned.action_taken = "dry_run"
       /\ CallsOf("external") = <<>>

\* The answers given to the external calls in cs, and those to one API.
Outs(cs) == {cs[i].out : i \in {j \in 1..Len(cs) : cs[j].op = "external"}}
OutsOf(cs, api) ==
    {cs[i].out : i \in {j \in 1..Len(cs) : cs[j].op = "external" /\ cs[j].who = api}}

\* No call in cs failed for a reason of the service or of the connection.
Served(cs) == Outs(cs) \cap ({"ClientError"} \cup OtherErrors) = {}

\* The calls of the remediate call that was made second.
SecondRun(cs) == SubSeq(cs, Len(calls) + 1, Len(cs))

Attempted(api) == OutsOf(calls, api) # {}

\* C14: in BlockPublicRemediator with dry-run off, a failure of enabling the
\* public-access-block flags yields success = false, whereas with the flags
\* enabled the result is success = true whatever fails in the later steps,
\* and the ACL step and the website step are both attempted.
C14_LaterStepsBestEffort ==
    (/\ pc = "remediator_done"
     /\ calls[1].who = "block_public"
     /\ ~dry_run
     /\ detection_result.details.bucket_name = Bucket) =>
       /\ OutsOf(calls, "s3.put_public_access_block") # {"ok"} => ~returned.success
       /\ OutsOf(calls, "s3.put_public_access_block") = {"ok"} =>
             /\ returned.success
             /\ Attempted("s3.get_bucket_policy")
             /\ Attempted("s3.put_bucket_acl")
             /\ Attempted("s3.delete_bucket_website")

\* The channels a webhook post was made to in the calls cs.
Posted(cs) ==
    {cs[i].target.entity :
        i \in {j \in 1..Len(cs) : cs[j].op = "external" /\ cs[j].who = "webhook.post"}}

\* C15: AlertTeamRemediator.remediate returns success exactly when the send
\* of at least one configured channel succeeded (a webhook answered 200, or
\* the e-mail channel, whose send always returns, is configured); every
\* configured webhook is posted to whatever happened to the others; with no
\* channel configured the result is an error.
C15_SuccessIffAChannelSucceeded ==
    (pc = "remediator_done" /\ calls[1].who = "alert_team") =>
       /\ returned.success <=>
             ("email" \in channels \/ "ok" \in OutsOf(calls, "webhook.post"))
       /\ Posted(calls) = channels \cap {"slack", "teams"}
       /\ channels = {} => ~returned.success

\* C16: with dry-run off, RevokeAccessRemediator.remediate on a finding of
\* a detector other than AdminGrant, CrossAccount and PublicBucket returns
\* an error result, makes no external call and leaves every resource as it
\* was.
C16_UnknownDetectorIsError ==
    (/\ pc = "remediator_done"
     /\ calls[1].who = "revoke_access"
     /\ ~dry_run
     /\ detection_result.detector_name \notin
           {"AdminGrantDetector", "CrossAccountDetector", "PublicBucketDetector"}) =>
       /\ ~returned.success
       /\ returned.action_taken = NoAction
       /\ CallsOf("external") = <<>>
       /\ cloud = cloud0

C16_Witness ==
    /\ pc = "remediator_done"
    /\ calls[1].who = "revoke_access"
    /\ ~dry_run
    /\ detection_result.detector_name = "MachineIdentityDetector"
    /\ detection_result.details.event_name = "AttachRolePolicy"
    /\ detection_result.details.request_parameters.roleName = "Admin"
    /\ detection_result.details.request_parameters.policyArn = AdminArn
    /\ <<"Role", "Admin", AdminArn>> \in cloud.attached
    /\ ~returned.success

\* C17: with dry-run off, RevokeAccessRemediator.remediate on a
\* CrossAccountDetector finding that names an assumed role makes one
\* put-role-policy call, on the role named by the last segment of the role
\* ARN, and returns success when that call succeeds.
C17_DenyPolicyAttached ==
    (/\ pc = "remediator_done"
     /\ calls[1].who = "revoke_access"
     /\ ~dry_run
     /\ detection_result.detector_name = "CrossAccountDetector"
     /\ detection_result.details.assumed_role = RoleArn) =>
       LET ext == CallsOf("external")
       IN /\ Len(ext) = 1
          /\ ext[1].who = "iam.put_role_policy"
          /\ ext[1].target.kind = "Role"
          /\ ext[1].target.entity = "Admin"
          /\ ext[1].out = "ok" =>
                /\ returned.success
                /\ returned.action_taken = "attach_emergency_deny_policy"

\* The entity and the policy an admin-grant finding names.
NamedKey(f) ==
    LET p == f.details.request_parameters
        kind == KindOf(f.details.event_name)
    IN <<kind,
         CASE kind = "User" -> p.userName [] kind = "Role" -> p.roleName
           [] kind = "Group" -> p.groupName,
         IF f.details.event_name \in AttachEvents THEN p.policyArn ELSE p.policyName>>

\* C18: with dry-run off, RevokeAccessRemediator.remediate on an
\* AdminGrantDetector finding for Attach{User,Role,Group}Policy that carries
\* the entity name and the policy ARN makes exactly one external call, the
\* detach of that policy from that entity, and returns success when the call
\* succeeds; for Put{User,Role,Group}Policy the one call deletes the inline
\* policy named in the event from the entity named in the event.  Every
\* other attachment and inline policy stays as it was.
C18_ExactRevocation ==
    (/\ pc = "remediator_done"
     /\ calls[1].who = "revoke_access"
     /\ ~dry_run
     /\ detection_result.detector_name = "AdminGrantDetector"
     /\ detection_result.details.event_name \in AttachEvents \cup PutEvents
     /\ Absent \notin {NamedKey(detection_result)[2], NamedKey(detection_result)[3]}) =>
       LET ext == CallsOf("external")
           key == NamedKey(detection_result)
           attach == detection_result.details.event_name \in AttachEvents
       IN /\ Len(ext) = 1
          /\ ext[1].who = (IF attach THEN "iam.detach_policy" ELSE "iam.delete_policy")
          /\ <<ext[1].target.kind, ext[1].target.entity, ext[1].target.policy>> = key
          /\ returned.success <=> ext[1].out = "ok"
          /\ cloud.attached = (IF attach /\ ext[1].out = "ok"
                               THEN cloud0.attached \ {key} ELSE cloud0.attached)
          /\ cloud.inline = (IF ~attach /\ ext[1].out = "ok"
                             THEN cloud0.inline \ {key} ELSE cloud0.inline)
          /\ [cloud EXCEPT !.attached = {}, !.inline = {}]
               = [cloud0 EXCEPT !.attached = {}, !.inline = {}]

C18_Witness ==
    /\ pc = "remediator_done"
    /\ calls[1].who = "revoke_access"
    /\ ~dry_run
    /\ detection_result.detector_name = "AdminGrantDetector"
    /\ detection_result.details.event_name = "AttachUserPolicy"
    /\ NamedKey(detection_result) = <<"User", "alice", AdminArn>>
    /\ returned.success
    /\ cloud0.attached = AttachedEverywhere
    /\ cloud.attached = AttachedEverywhere \ {<<"User", "alice", AdminArn>>}

C18_WitnessInline ==
    /\ pc = "remediator_done"
    /\ calls[1].who = "revoke_access"
    /\ ~dry_run
    /\ detection_result.detector_name = "AdminGrantDetector"
    /\ detection_result.details.event_name = "PutRolePolicy"
    /\ NamedKey(detection_result) = <<"Role", "Admin", "inline-admin">>
    /\ returned.success
    /\ cloud0.inline = InlineEverywhere
    /\ cloud.inline = InlineEverywhere \ {<<"Role", "Admin", "inline-admin">>}

----------------------------------------------------------------------------
(* Two process_event invocations on the same finding, in separate function *)
(* instances, whose remediations overlap: each runs the remediators its    *)
(* finding recommends, in order, and the external calls of the two         *)
(* interleave.                                                             *)

Invocations == {"first", "second"}

\* The recommended actions that act on a resource (public_bucket.py 92-98,
\* admin_grant.py 115-120, cross_account.py 104-109).
Plans(f) ==
    IF f.detector_name = "PublicBucketDetector"
    THEN {<<"revoke_access", "block_public">>, <<"block_public">>}
    ELSE {<<"revoke_access">>}

RaceFindings ==
    {f \in PublicBucketFindings : f.details.bucket_name = Bucket}
    \cup {f \in AdminGrantFindings :
            /\ f.details.event_name \in AttachEvents \cup PutEvents
            /\ Absent \notin {NamedKey(f)[2], NamedKey(f)[3]}}
    \cup {f \in OtherFindings : f.details.assumed_role = RoleArn}

RaceScenarios ==
    {Scenario(f, c, {}) :
        f \in RaceFindings \cap PublicBucketFindings, c \in BucketClouds}
    \cup {Scenario(f, c, {}) :
            f \in RaceFindings \ PublicBucketFindings, c \in IamClouds}

Invocation(plan) == [plan |-> plan, at |-> 1, hist |-> <<>>, results |-> <<>>]

InitRace ==
    /\ pc = "racing"
    /\ env = None
    /\ dry_run = FALSE
    /\ \E s \in RaceScenarios :
          /\ detection_result = s.finding
          /\ cloud = s.cloud
          /\ channels = s.channels
          /\ \E plan \in Plans(s.finding) :
                inv = [i \in Invocations |-> Invocation(plan)]
    /\ cloud0 = cloud
    /\ detectors = <<>>
    /\ AUTO_REMEDIATION = TRUE
    /\ event = None
    /\ di = 0
    /\ ai = 0
    /\ remediation_results = None
    /\ results = None
    /\ returned = None
    /\ factors = None
    /\ calls = <<>>
    /\ detectLog = <<>>
    /\ remLog = <<>>

Running(i) == inv[i].at <= Len(inv[i].plan)

StepOf(i) == remediate(inv[i].plan[inv[i].at], detection_result, inv[i].hist)

\* Invocation i makes the next external call of its current remediator.
RaceCall(i) ==
    /\ pc = "racing"
    /\ Running(i)
    /\ ~StepOf(i).done
    /\ \E a \in Respond(cloud, StepOf(i).api, StepOf(i).target) :
          /\ inv' = [inv EXCEPT ![i].hist =
                        Append(@, External(StepOf(i).api, StepOf(i).target, a.out))]
          /\ cloud' = a.cloud
    /\ UNCHANGED <<env, pc, detectors, AUTO_REMEDIATION, dry_run, channels, cloud0,
                   event, di, detection_result, ai, remediation_results,
                   results, returned, factors, calls, detectLog, remLog>>

\* The current remediator of invocation i returns (main.py 268-275), and the
\* invocation moves to its next action.
RaceReturn(i) ==
    /\ pc = "racing"
    /\ Running(i)
    /\ StepOf(i).done
    /\ inv' = [inv EXCEPT ![i].results = Append(@, StepOf(i).result),
                          ![i].at = @ + 1,
                          ![i].hist = <<>>]
    /\ UNCHANGED <<env, pc, detectors, AUTO_REMEDIATION, dry_run, channels, cloud,
                   cloud0, event, di, detection_result, ai,
                   remediation_results, results, returned, factors, calls,
                   detectLog, remLog>>

NextRace ==
    \/ \E i \in Invocations : RaceCall(i)
    \/ \E i \in Invocations : RaceReturn(i)

SpecRace == InitRace /\ [][NextRace]_vars

\* The states one invocation running alone can leave the resources in.
RECURSIVE SingleStates(_, _, _)
SingleStates(plan, f, c) ==
    IF plan = <<>> THEN {c}
    ELSE UNION {SingleStates(Tail(plan), f, run.cloud) :
                   run \in Runs(Head(plan), f, <<>>, c)}

C19_WitnessBucket ==
    /\ pc = "racing"
    /\ \A i \in Invocations : ~Running(i)
    /\ inv["first"].plan = <<"revoke_access", "block_public">>
    /\ cloud0.policy = "wildcard"
    /\ cloud0.acl = "public-read"
    /\ \A i \in Invocations : \A k \in 1..2 : inv[i].results[k].success
    /\ cloud.policy = "none"
    /\ cloud.acl = "private"
    /\ cloud.pab
    /\ ~cloud.website

----------------------------------------------------------------------------
(* The five detectors' detect: detectors/*.py.  An event is a decoded JSON *)
(* object; a field is absent, null, or holds a value, and eventName may    *)
(* hold an array where a string is expected.                               *)

JsonNull == "<null>"
JsonArray == "<array>"
JsonObject == "<object>"

\* public_bucket.py 26-31
dangerous_actions ==
    {"PutBucketPolicy", "PutBucketAcl", "DeleteBucketPublicAccessBlock",
     "PutBucketPublicAccessBlock"}

\* admin_grant.py 26-35
admin_actions ==
    {"AttachUserPolicy", "AttachGroupPolicy", "AttachRolePolicy",
     "PutUserPolicy", "PutGroupPolicy", "PutRolePolicy",
     "CreateAccessKey", "UpdateAssumeRolePolicy"}

\* policy_change.py 27-36
sensitive_policy_actions ==
    {"CreatePolicy", "CreatePolicyVersion", "SetDefaultPolicyVersion",
     "DeletePolicy", "DeletePolicyVersion", "DetachRolePolicy",
     "DetachUserPolicy", "DetachGroupPolicy"}

\* cross_account.py 28-32
cross_account_actions == {"AssumeRole", "GetFederationToken", "GetSessionToken"}

\* machine_identity.py 42-74
monitored_actions ==
    {"CreateServiceAccount", "DeleteServiceAccount", "UpdateServiceAccount",
     "SetIamPolicy", "CreateAccessKey", "DeleteAccessKey", "UpdateAccessKey",
     "RotateAccessKey", "CreateServiceAccountKey", "DeleteServiceAccountKey",
     "AssumeRole", "AssumeRoleWithWebIdentity", "AssumeRoleWithSAML",
     "GetSessionToken", "GetFederationToken", "CreateOIDCToken", "SignJwt",
     "SignBlob", "GenerateAccessToken", "ImpersonateServiceAccount"}

GateSet(d) ==
    CASE d = "PublicBucketDetector" -> dangerous_actions
      [] d = "AdminGrantDetector"   -> admin_actions
      [] d = "PolicyChangeDetector" -> sensitive_policy_actions
      [] d = "CrossAccountDetector" -> cross_account_actions

\* A Python list is unhashable: testing it for membership in a set raises
\* TypeError.
Hashable(v) == v # JsonArray

ErrorResult(d) == ZeroResult(d, [kind |-> "error"])
ReasonResult(d) == ZeroResult(d, [kind |-> "reason"])

\* The results of the analysis, fused and thresholded, of an event that
\* passed the gate.
Findings(d) == {Decision(d, Score(s, 1), [kind |-> "finding"]) : s \in BandScores(d)}

\* public_bucket.py 62-118, 120-135: the try block of detect.
PublicBucketBody(e) ==
    IF e.requestParameters = JsonNull
    THEN {ErrorResult("PublicBucketDetector")}       \* None.get, caught at 109
    ELSE IF e.requestParameters = Absent
    THEN {ReasonResult("PublicBucketDetector")}      \* no bucket name, 65-73
    ELSE {ReasonResult("PublicBucketDetector")}
         \cup Findings("PublicBucketDetector")

\* admin_grant.py 78-139, 141-148, 150-210: the try block of detect.
AdminGrantBody(e) ==
    IF e.userIdentity = JsonNull \/ e.requestParameters = JsonNull
    THEN {ErrorResult("AdminGrantDetector")}
    ELSE {ReasonResult("AdminGrantDetector")}        \* allow-listed principal
         \cup Findings("AdminGrantDetector")

\* policy_change.py 68-116, 118-170: the try block of detect.
PolicyChangeBody(e) ==
    IF /\ e.requestParameters = JsonNull
       /\ e.eventName \in {"DeletePolicy", "DeletePolicyVersion",
                           "CreatePolicy", "CreatePolicyVersion"}
    THEN {ErrorResult("PolicyChangeDetector")}
    ELSE Findings("PolicyChangeDetector")

\* cross_account.py 72-121, 123-211: the try block of detect.
CrossAccountBody(e) ==
    IF e.userIdentity = JsonNull \/ e.requestParameters = JsonNull
    THEN {ErrorResult("CrossAccountDetector")}
    ELSE Findings("CrossAccountDetector")

Body(d, e) ==
    CASE d = "PublicBucketDetector" -> PublicBucketBody(e)
      [] d = "AdminGrantDetector"   -> AdminGrantBody(e)
      [] d = "PolicyChangeDetector" -> PolicyChangeBody(e)
      [] d = "CrossAccountDetector" -> CrossAccountBody(e)

\* Faulty variant: the gate on eventName is missing.
GatedDetect_ungated(d, e) ==
    IF ~Hashable(Get(e, "eventName", "")) THEN {Raise} ELSE Body(d, e)

\* detect of the four registered detectors (public_bucket.py 39-118,
\* admin_grant.py 55-139, policy_change.py 48-116, cross_account.py 52-121):
\* the gate on eventName stands before the try block.
GatedDetect(d, e) ==
    LET event_name == Get(e, "eventName", "")
    IN  IF ~Hashable(event_name) THEN {Raise}
        ELSE IF event_name \notin GateSet(d) THEN {ReasonResult(d)}
        ELSE Body(d, e)

\* machine_identity.py 265-288: raises AttributeError when userIdentity is
\* null (None.get) or its arn is null (None.lower()).
IsMachineIdentityRaises(e) ==
    \/ e.userIdentity = JsonNull
    \/ (e.userIdentity = JsonObject /\ e.arn = JsonNull)

\* ARNs that match machine_identity.py 35-39 / 285: the second one also
\* carries a CI/CD indicator of line 555.
CicdArns == {"arn:aws:iam::123456789012:user/ci-deployer"}
MachineArns == {"arn:aws:sts::123456789012:assumed-role/lambda-exec/fn"} \cup CicdArns

IsMachineIdentity(e) == e.userIdentity = JsonObject /\ e.arn \in MachineArns

\* machine_identity.py 596-630
generate_recommendations(risk_score, risk_factors) ==
    LET when(c, recs) == IF c THEN recs ELSE <<>>
    IN  when(ScoreGE(risk_score, 80), <<"revoke_access">>)
        \o when(ScoreGE(risk_score, 50), <<"alert_team">>)
        \o when("old_service_account_key" \in risk_factors,
                <<"rotate_service_account_key">>)
        \o when("dormant_account_activated" \in risk_factors,
                <<"verify_account_reactivation">>)
        \o when("privilege_escalation" \in risk_factors,
                <<"audit_permission_changes">>)
        \o when("cross_account_usage" \in risk_factors,
                <<"verify_cross_account_access">>)
        \o when("impersonation_chain" \in risk_factors,
                <<"investigate_impersonation_chain">>)
        \o when("cicd_credential_misuse" \in risk_factors,
                <<"rotate_cicd_credentials", "audit_cicd_infrastructure">>)
        \o when("unexpected_location" \in risk_factors,
                <<"verify_source_ip", "enable_ip_whitelisting">>)

\* machine_identity.py 209-237
MachineIdentityDecision(risk_score, details, risk_factors) ==
    DetectionResult(ScoreGE(risk_score, 40), risk_score,
                    determine_severity(risk_score), details,
                    generate_recommendations(risk_score, risk_factors),
                    ScoreGE(risk_score, 80), "MachineIdentityDetector")

\* machine_identity.py 391-429
escalation_actions ==
    {"AttachRolePolicy", "PutRolePolicy", "UpdateAssumeRolePolicy", "PassRole",
     "CreatePolicyVersion", "SetDefaultPolicyVersion"}

check_privilege_escalation(e) ==
    IF Get(e, "eventName", "") \in escalation_actions THEN {70, 85, 90} ELSE {0}

\* machine_identity.py 547-581: only a principal whose ARN carries a CI/CD
\* indicator can score; 85 from an unrecognised source address, 75 for an
\* unusual action.
check_cicd_credential_misuse(e) ==
    IF e.userIdentity = JsonObject /\ e.arn \in CicdArns
    THEN {0, 85} \cup (IF Get(e, "eventName", "") \in
                           {"CreateAccessKey", "DeleteUser", "AttachUserPolicy"}
                       THEN {75} ELSE {})
    ELSE {0}

\* machine_identity.py 456-492
check_impersonation_chain(e) ==
    {0, 60, 85} \cup (IF Get(e, "eventName", "") = "ImpersonateServiceAccount"
                      THEN {70} ELSE {})

\* The scores the ten checks of lines 155-207 can give for event e.  The
\* key-age, dormancy, scope and location checks (290-389) always give 0:
\* the first is a placeholder and the baselines the others read are empty
\* (line 95).  The other checks read fields of the event the model does
\* not carry (accountId, recipientAccountId, sessionContext, principalId,
\* eventSource, userAgent, eventTime), so each may give any of its scores.
MachineIdentityChecks(e) ==
    [privilege_escalation : check_privilege_escalation(e),
     cross_account_usage : {0, 35, 75},
     impersonation_chain : check_impersonation_chain(e),
     high_risk_action : {0, 55, 75, 80},
     bot_anomaly : {0, 45},
     cicd_credential_misuse : check_cicd_credential_misuse(e)]

\* machine_identity.py 155-207: a check enters risk_factors when it scored.
RiskFactorsOf(c) == [k \in {x \in DOMAIN c : c[x] > 0} |-> c[k]]

\* machine_identity.py 143-248: the try block of detect.
MachineIdentityBody(e) ==
    IF IsMachineIdentityRaises(e)
    THEN {ErrorResult("MachineIdentityDetector")}    \* caught at 239
    ELSE {MachineIdentityDecision(calculate_risk_score(RiskFactorsOf(c)),
                                  [kind |-> "finding"],
                                  DOMAIN RiskFactorsOf(c)) :
             c \in MachineIdentityChecks(e)}

\* machine_identity.py 120-248, 250-263: _is_machine_identity_event is
\* called before the try block.
MachineIdentityDetect(e) ==
    LET event_name == Get(e, "eventName", "")
    IN  IF ~Hashable(event_name) THEN {Raise}
        ELSE IF event_name \in monitored_actions THEN MachineIdentityBody(e)
        ELSE IF IsMachineIdentityRaises(e) THEN {Raise}
        ELSE IF IsMachineIdentity(e) THEN MachineIdentityBody(e)
        ELSE {ReasonResult("MachineIdentityDetector")}

AllDetectors == DetectorNames \cup {"MachineIdentityDetector"}

detect(d, e) ==
    IF d = "MachineIdentityDetector" THEN MachineIdentityDetect(e)
    ELSE GatedDetect(d, e)

EventNames ==
    {Absent, JsonNull, JsonArray, "PutBucketPolicy", "AttachUserPolicy",
     "CreatePolicy", "AssumeRole", "CreateServiceAccount", "DescribeInstances"}

DetectEvents ==
    {e \in [eventID : {"evt-1"},
            eventName : EventNames,
            requestParameters : {Absent, JsonNull, JsonObject},
            userIdentity : {Absent, JsonNull, JsonObject},
            arn : {Absent, JsonNull, "arn:aws:iam::123456789012:user/alice"}
                     \cup MachineArns] :
        e.userIdentity # JsonObject => e.arn = Absent}

InitDetect ==
    /\ pc = "detector_idle"
    /\ env = None
    /\ event \in DetectEvents
    /\ detectors = <<>>
    /\ AUTO_REMEDIATION = TRUE
    /\ dry_run = FALSE
    /\ channels = {}
    /\ cloud = None
    /\ cloud0 = None
    /\ inv = None
    /\ di = 0
    /\ detection_result = None
    /\ ai = 0
    /\ remediation_results = None
    /\ results = None
    /\ returned = None
    /\ factors = None
    /\ calls = <<>>
    /\ detectLog = <<>>
    /\ remLog = <<>>

\* One detect call on detector d.
DetectCall(d) ==
    /\ pc = "detector_idle"
    /\ \E out \in detect(d, event) :
          /\ returned' = out
          /\ calls' = <<Call("detect", d, IF out = Raise THEN "raise" ELSE "return")>>
    /\ pc' = "detector_done"
    /\ UNCHANGED <<env, detectors, AUTO_REMEDIATION, dry_run, channels, cloud, cloud0,
                   inv, event, di,
                   detection_result, ai, remediation_results, results,
                   factors, detectLog, remLog>>

NextDetect == \E d \in AllDetectors : DetectCall(d)

SpecDetect == InitDetect /\ [][NextDetect]_vars

\* C1: for each of the five detectors and every event, detect returns a
\* DetectionResult and never raises; a result produced by an internal
\* fault has is_threat = false, risk_score = 0 and carries the fault under
\* details.error.
C1_DetectNeverRaises ==
    pc = "detector_done" =>
       /\ returned # Raise
       /\ (returned.details.kind = "error" =>
              /\ ~returned.is_threat
              /\ ScoreEq(returned.risk_score, Score(0, 1)))

----------------------------------------------------------------------------
(* Properties of the detectors' results. *)

SeverityRank(sev) ==
    CASE sev = "Severity.LOW" -> 1
      [] sev = "Severity.MEDIUM" -> 2
      [] sev = "Severity.HIGH" -> 3
      [] sev = "Severity.CRITICAL" -> 4

\* Scores in half-point steps from 0 to 100.
ProbeScores == {Score(n, 2) : n \in 0..200}

\* C11: the severity function is total and monotonically non-decreasing:
\* CRITICAL from 80, HIGH from 60 to below 80, MEDIUM from 40 to below 60,
\* LOW below 40; and the severity of every DetectionResult a detector
\* returns is this function of its risk_score.
C11_SeverityFollowsScore ==
    (pc = "detector_done" /\ returned # Raise) =>
       LET s == returned.risk_score
           sev == returned.severity
       IN  /\ sev \in Severity
           /\ (sev = "Severity.CRITICAL" <=> s.num >= 80 * s.den)
           /\ (sev = "Severity.HIGH" <=> (s.num >= 60 * s.den /\ s.num < 80 * s.den))
           /\ (sev = "Severity.MEDIUM" <=> (s.num >= 40 * s.den /\ s.num < 60 * s.den))
           /\ (sev = "Severity.LOW" <=> s.num < 40 * s.den)
           /\ \A t \in ProbeScores :
                 /\ determine_severity(t) \in Severity
                 /\ (s.num * t.den <= t.num * s.den =>
                        SeverityRank(sev) <= SeverityRank(determine_severity(t)))
                 /\ (t.num * s.den <= s.num * t.den =>
                        SeverityRank(determine_severity(t)) <= SeverityRank(sev))

C11_Witness ==
    /\ pc = "detector_done"
    /\ returned # Raise
    /\ returned.is_threat
    /\ ScoreEq(returned.risk_score, Score(80, 1))
    /\ returned.severity = "Severity.CRITICAL"

\* The detector the detect call under study was made on.
Called == calls[1].who

IsZeroRisk(r) == ~r.is_threat /\ ScoreEq(r.risk_score, Score(0, 1))

\* The event's action name is a string outside the gate action set of d.
OutsideGate(d, e) ==
    /\ Get(e, "eventName", "") # JsonArray
    /\ Get(e, "eventName", "") \notin
          (IF d = "MachineIdentityDetector" THEN monitored_actions ELSE GateSet(d))

C12_WitnessMachine ==
    /\ pc = "detector_done"
    /\ Called = "MachineIdentityDetector"
    /\ event.eventName = "DescribeInstances"
    /\ event.userIdentity = JsonObject
    /\ event.arn \notin MachineArns
    /\ returned # Raise
    /\ IsZeroRisk(returned)

\* The positions of an action in a list of recommended actions.
Positions(acts, a) == {i \in 1..Len(acts) : acts[i] = a}

\* C20: for every detector and every event, a returned result that is a
\* threat recommends alert_team, and wherever revoke_access is recommended
\* it stands before alert_team.
C20_ThreatAlertsTeam ==
    (pc = "detector_done" /\ returned # Raise) =>
       /\ returned.is_threat =>
             Positions(returned.recommended_actions, "alert_team") # {}
       /\ \A i \in Positions(returned.recommended_actions, "revoke_access") :
             \A j \in Positions(returned.recommended_actions, "alert_team") : i < j

\* C21: in every DetectionResult a detector returns, on any path,
\* auto_remediate implies is_threat; and so it is at every score of the
\* detector's threshold policy.
C21_AutoImpliesThreat ==
    (pc = "detector_done" /\ returned # Raise) =>
       LET policy(t) ==
             IF Called = "MachineIdentityDetector"
             THEN MachineIdentityDecision(t, returned.details, {})
             ELSE Decision(Called, t, returned.details)
       IN  /\ returned.auto_remediate => returned.is_threat
           /\ \A t \in ProbeScores : policy(t).auto_remediate => policy(t).is_threat

\* A threat that does not qualify for auto-remediation.
C21_Witness ==
    /\ pc = "detector_done"
    /\ returned # Raise
    /\ returned.is_threat
    /\ ~returned.auto_remediate

C21_WitnessAuto ==
    /\ pc = "detector_done"
    /\ returned # Raise
    /\ returned.auto_remediate
    /\ Called = "PolicyChangeDetector"

Recommends(r, a) == Positions(r.recommended_actions, a) # {}

\* C22 as stated: every DetectionResult with auto_remediate = true has
\* revoke_access among its recommended actions.
C22_AutoImpliesRevoke ==
    (pc = "detector_done" /\ returned # Raise /\ returned.auto_remediate) =>
       Recommends(returned, "revoke_access")

\* C22, amended: a result with auto_remediate = true of AdminGrant,
\* PolicyChange, CrossAccount or MachineIdentity recommends revoke_access;
\* one of PublicBucket recommends block_public, and revoke_access exactly
\* from a score of 80.
C22_AutoImpliesStrongAction ==
    (pc = "detector_done" /\ returned # Raise /\ returned.auto_remediate) =>
       IF Called = "PublicBucketDetector"
       THEN /\ Recommends(returned, "block_public")
            /\ Recommends(returned, "revoke_access") <=>
                  returned.risk_score.num >= 80 * returned.risk_score.den
       ELSE Recommends(returned, "revoke_access")

C22_Witness ==
    /\ pc = "detector_done"
    /\ returned # Raise
    /\ Called = "AdminGrantDetector"
    /\ returned.auto_remediate
    /\ Recommends(returned, "revoke_access")

C22_WitnessBucket ==
    /\ pc = "detector_done"
    /\ returned # Raise
    /\ Called = "PublicBucketDetector"
    /\ returned.auto_remediate
    /\ Recommends(returned, "block_public")
    /\ ~Recommends(returned, "revoke_access")


----------------------------------------------------------------------------
(* The detectors in detail: policy documents carried by events, the        *)
(* analysers that score them, and the risk factors each registered         *)
(* detector collects from an event under a given environment               *)

\* A statement of a policy document.  Principal is "{}" when the statement
\* has none, the string "*", or an object whose AWS member is "*" or an ARN.
\* An element of Statement that is a JSON string is not an object.
Statement(Effect, Action, Resource, Principal) ==
    [Effect |-> Effect, Action |-> Action, Resource |-> Resource, Principal |-> Principal]

NotAnObject == [str |-> "Allow"]

Statements ==
    { Statement("Allow", {"*"}, {"*"}, "{AWS:*}"),
      Statement("Allow", {"s3:GetObject"}, {"*"}, "*"),
      Statement("Allow", {"iam:PassRole"}, {"arn:aws:iam::123456789012:role/App"}, "{AWS:arn}"),
      Statement("Deny", {"cloudtrail:StopLogging"}, {"*"}, "{}"),
      Statement("Allow", {"ec2:DescribeInstances"}, {"arn:aws:ec2:::instance/i-1"}, "{}"),
      NotAnObject }

\* A document's Statement list, of at most n statements.
Documents(n) == UNION {[1..k -> Statements] : k \in 0..n}

Max(a, b) == IF a >= b THEN a ELSE b

\* The analysers' loop over the statements: each statement either raises or
\* raises the running maximum; the enclosing try/except turns a raise into
\* the risk 0.0.
RECURSIVE StatementLoop(_, _)
StatementLoop(outcomes, risk_score) ==
    IF outcomes = <<>> THEN risk_score
    ELSE IF Head(outcomes) = Raise THEN 0
    ELSE StatementLoop(Tail(outcomes), Max(risk_score, Head(outcomes).risk))

\* public_bucket.py 209-229, the statements of requestParameters.bucketPolicy
_analyze_bucket_policy(statements) ==
    LET step(s) ==
          IF s = NotAnObject THEN Raise
          ELSE LET wildcard == s.Principal \in {"*", "{AWS:*}"}
                   principal_risk == IF wildcard THEN IF s.Effect = "Allow" THEN 95 ELSE 20 ELSE 0
                   action_risk ==
                       IF s.Action \cap {"s3:GetObject", "s3:PutObject", "s3:DeleteObject", "s3:*"} # {}
                       THEN 80 ELSE 0
               IN  [risk |-> Max(principal_risk, action_risk)]
    IN  StatementLoop([i \in 1..Len(statements) |-> step(statements[i])], 0)

\* admin_grant.py 231-263
_analyze_policy_document(statements) ==
    LET dangerous_iam_actions == {"iam:CreatePolicyVersion", "iam:SetDefaultPolicyVersion",
                              "iam:PassRole", "iam:AttachUserPolicy",
                              "iam:AttachRolePolicy", "sts:AssumeRole"}
        step(s) ==
          IF s = NotAnObject THEN Raise
          ELSE IF s.Effect # "Allow" THEN [risk |-> 0]
          ELSE [risk |-> Max(IF s.Action \cap {"*", "iam:*"} # {} THEN 95 ELSE 0,
                         Max(IF s.Action \cap dangerous_iam_actions # {} THEN 80 ELSE 0,
                             IF "*" \in s.Resource THEN 70 ELSE 0))]
    IN  StatementLoop([i \in 1..Len(statements) |-> step(statements[i])], 0)

\* admin_grant.py 288-301: a Principal that is the string "*" sets the risk
\* to 95 and then raises at principal.get('AWS') of line 296.
_analyze_assume_role_policy(statements) ==
    LET step(s) ==
          IF s = NotAnObject THEN Raise
          ELSE IF s.Principal = "*" THEN Raise
          ELSE [risk |-> Max(IF s.Principal = "{AWS:*}" THEN 95 ELSE 0,
                             IF s.Principal = "{AWS:arn}" THEN 60 ELSE 0)]
    IN  StatementLoop([i \in 1..Len(statements) |-> step(statements[i])], 0)

\* policy_change.py 190-235
_analyze_policy_content(statements) ==
    LET security_actions == {"cloudtrail:StopLogging", "cloudtrail:DeleteTrail",
                             "guardduty:DeleteDetector", "config:DeleteConfigRule",
                             "iam:DeleteAccountPasswordPolicy", "kms:ScheduleKeyDeletion",
                             "logs:DeleteLogGroup"}
        exfil_actions == {"s3:GetObject", "rds:CopyDBSnapshot", "ec2:CreateSnapshot",
                          "lambda:GetFunction"}
        \* the actions of the model whose text holds the name of a critical resource
        critical == {"iam:PassRole", "cloudtrail:StopLogging"}
        step(s) ==
          IF s = NotAnObject THEN Raise
          ELSE IF s.Effect = "Allow"
          THEN [risk |-> Max(IF "*" \in s.Action /\ "*" \in s.Resource THEN 95 ELSE 0,
                         Max(IF s.Action \cap security_actions # {} THEN 85 ELSE 0,
                             IF s.Action \cap exfil_actions # {} /\ "*" \in s.Resource
                             THEN 70 ELSE 0))]
          ELSE IF s.Effect = "Deny"
          THEN [risk |-> IF s.Action \cap critical # {} THEN 80 ELSE 0]
          ELSE [risk |-> 0]
    IN  StatementLoop([i \in 1..Len(statements) |-> step(statements[i])], 0)

\* cross_account.py 249-273
_analyze_session_policy(statements) ==
    LET sensitive_actions == {"iam:*", "sts:AssumeRole", "s3:GetObject",
                              "secretsmanager:GetSecretValue"}
        step(s) ==
          IF s = NotAnObject THEN Raise
          ELSE [risk |-> Max(IF "*" \in s.Action \/ "*" \in s.Resource THEN 75 ELSE 0,
                             IF s.Action \cap sensitive_actions # {} THEN 60 ELSE 0)]
    IN  StatementLoop([i \in 1..Len(statements) |-> step(statements[i])], 0)


\* The identities and accounts the events name.
OwnAccount == "123456789012"
OtherAccount == "999999999999"
UserArn == "arn:aws:iam::123456789012:user/admin"
PrincipalId == "AIDAI123456789"
OtherRoleArn == "arn:aws:iam::999999999999:role/CrossAccountRole"

\* admin_grant.py 50-53, cross_account.py 47-50: the value of the variable
\* is the list of items between its commas; blank items are dropped.
LoadSet(items) == {items[i] : i \in 1..Len(items)} \ {""}

\* admin_grant.py 141-148
_extract_principal(user_identity) ==
    IF user_identity.arn # "" THEN user_identity.arn
    ELSE IF user_identity.principalId # "" THEN user_identity.principalId
    ELSE user_identity.accountId

\* admin_grant.py 326-346, cross_account.py 313-332; event_time is the hour
\* of the event's timestamp.
_is_off_hours(event_time) == event_time >= 22 \/ event_time < 6

\* One entry of a risk-factor dictionary, present when its condition holds.
Factor(condition, name, value) == IF condition THEN name :> value ELSE <<>>

\* admin_grant.py 150-210.  Of the policy ARNs drawn only AdminArn ends in
\* the name of an admin policy; the user name "bob" is part of no principal.
_analyze_permission_grant(e) ==
    LET p == e.requestParameters
        has_policy == e.eventName # "CreateAccessKey"    \* 'Policy' in event_name
        inline_risk == IF has_policy /\ p.policyDocument # None
                       THEN _analyze_policy_document(p.policyDocument.Statement) ELSE 0
        assume_risk == IF e.eventName = "UpdateAssumeRolePolicy" /\ p.policyDocument # None
                       THEN _analyze_assume_role_policy(p.policyDocument.Statement) ELSE 0
    IN  Factor(has_policy /\ p.policyArn = AdminArn, "admin_policy_attached", 95)
        @@ Factor(inline_risk > 0, "dangerous_inline_policy", inline_risk)
        @@ Factor(e.eventName = "CreateAccessKey" /\ p.userName # "",
                  "cross_user_key_creation", 85)
        @@ Factor(assume_risk > 0, "dangerous_assume_role_policy", assume_risk)
        @@ Factor(_is_off_hours(e.eventTime), "off_hours_activity", 30)
        @@ Factor(e.errorCode # "", "error_in_request", 20)

\* admin_grant.py 55-139
AdminGrantDetect(e, environ) ==
    IF e.eventName \notin admin_actions THEN ReasonResult("AdminGrantDetector")
    ELSE IF _extract_principal(e.userIdentity) \in LoadSet(environ.WHITELISTED_PRINCIPALS)
    THEN ReasonResult("AdminGrantDetector")
    ELSE LET risk_factors == _analyze_permission_grant(e)
         IN  AdminGrantDecision(calculate_risk_score(risk_factors),
                                [kind |-> "finding", risk_factors |-> risk_factors])

\* public_bucket.py 273-290: of the bucket names drawn only this one holds a
\* sensitive keyword ("prod", "customer").
_is_sensitive_bucket(bucket_name) == bucket_name = "prod-customer-data"

\* public_bucket.py 137-188, 235-271.  acl is the permission of the one
\* AllUsers grant of requestParameters.AccessControlPolicy, "" without one.
_analyze_bucket(bucket_name, e) ==
    LET p == e.requestParameters
        policy_risk == IF e.eventName = "PutBucketPolicy" /\ p.bucketPolicy # None
                       THEN _analyze_bucket_policy(p.bucketPolicy.Statement) ELSE 0
        acl_risk == IF e.eventName # "PutBucketAcl" THEN 0
                    ELSE IF p.acl \in {"FULL_CONTROL", "WRITE"} THEN 95
                    ELSE IF p.acl = "READ" THEN 70 ELSE 0
    IN  Factor(e.eventName = "DeleteBucketPublicAccessBlock", "public_access_block_removed", 90)
        @@ Factor(e.eventName = "PutBucketPublicAccessBlock" /\ ~p.PublicAccessBlockConfiguration,
                  "weak_public_access_block", 70)
        @@ Factor(policy_risk > 0, "dangerous_bucket_policy", policy_risk)
        @@ Factor(acl_risk > 0, "dangerous_bucket_acl", acl_risk)
        @@ Factor(_is_sensitive_bucket(bucket_name), "sensitive_bucket", 30)

\* public_bucket.py 39-118, 120-135; the events drawn carry no resources list.
PublicBucketDetect(e) ==
    IF e.eventName \notin dangerous_actions THEN ReasonResult("PublicBucketDetector")
    ELSE LET bucket_name == e.requestParameters.bucketName
         IN  IF bucket_name = "" THEN ReasonResult("PublicBucketDetector")
             ELSE LET risk_factors == _analyze_bucket(bucket_name, e)
                  IN  PublicBucketDecision(calculate_risk_score(risk_factors),
                                           [kind |-> "finding", risk_factors |-> risk_factors])

\* policy_change.py 118-170, 261-293.  Every IAM policy ARN holds "iam", the
\* name of a critical resource; so does the text of a statement on an iam or
\* cloudtrail action.
_analyze_policy_change(e) ==
    LET p == e.requestParameters
        deletion == e.eventName \in {"DeletePolicy", "DeletePolicyVersion"}
        creation == e.eventName \in {"CreatePolicy", "CreatePolicyVersion"}
        policy_risk == IF creation /\ p.policyDocument # None
                       THEN _analyze_policy_content(p.policyDocument.Statement) ELSE 0
        critical_text(st) == \E i \in 1..Len(st) :
                                /\ "Action" \in DOMAIN st[i]
                                /\ st[i].Action \cap {"iam:PassRole", "cloudtrail:StopLogging"} # {}
        affects_critical_service ==
            \/ p.policyArn # ""
            \/ p.policyDocument # None /\ critical_text(p.policyDocument.Statement)
    IN  Factor(deletion, "policy_deletion", 75)
        @@ Factor(deletion /\ p.policyArn # "", "critical_policy_deleted", 90)
        @@ Factor(e.eventName = "SetDefaultPolicyVersion", "policy_version_change", 65)
        @@ Factor(e.eventName \in {"DetachRolePolicy", "DetachUserPolicy", "DetachGroupPolicy"},
                  "policy_detached", 60)
        @@ Factor(policy_risk > 0, "dangerous_policy_content", policy_risk)
        @@ Factor(e.errorCode # "", "failed_attempt", 25)
        @@ Factor(affects_critical_service, "affects_critical_service", 55)

\* policy_change.py 48-116
PolicyChangeDetect(e) ==
    IF e.eventName \notin sensitive_policy_actions THEN ReasonResult("PolicyChangeDetector")
    ELSE LET risk_factors == _analyze_policy_change(e)
         IN  PolicyChangeDecision(calculate_risk_score(risk_factors),
                                  [kind |-> "finding", risk_factors |-> risk_factors])

\* cross_account.py 218-228, on the ARNs drawn
_extract_account_from_arn(arn) ==
    IF arn \in {UserArn, RoleArn} THEN OwnAccount
    ELSE IF arn = OtherRoleArn THEN OtherAccount
    ELSE ""

\* cross_account.py 195-211; no principal id drawn holds a colon.
_extract_source_account(e) ==
    IF e.userIdentity.accountId # "" THEN e.userIdentity.accountId
    ELSE _extract_account_from_arn(e.userIdentity.arn)

\* cross_account.py 123-193; _is_suspicious_ip and _has_recent_failures
\* always answer False.
_analyze_cross_account_access(e, environ) ==
    LET p == e.requestParameters
        source_account == _extract_source_account(e)
        assume == e.eventName = "AssumeRole"
        policy_risk == IF assume /\ p.policy # None
                       THEN _analyze_session_policy(p.policy.Statement) ELSE 0
    IN  Factor(source_account # "" /\ source_account \notin LoadSet(environ.TRUSTED_ACCOUNTS),
               "untrusted_source_account", 70)
        @@ Factor(/\ assume /\ p.roleArn # "" /\ p.externalId = ""
                  /\ _extract_account_from_arn(p.roleArn) # e.recipientAccountId,
                  "no_external_id", 60)
        @@ Factor(policy_risk > 0, "dangerous_session_policy", policy_risk)
        @@ Factor(p.durationSeconds > 43200, "excessive_session_duration", 45)
        @@ Factor(e.eventName = "GetFederationToken", "federated_access", 50)
        @@ Factor(e.userIdentity.type = "AssumedRole", "role_chaining", 40)
        @@ Factor(_is_off_hours(e.eventTime), "off_hours_access", 30)

\* cross_account.py 52-121
CrossAccountDetect(e, environ) ==
    IF e.eventName \notin cross_account_actions THEN ReasonResult("CrossAccountDetector")
    ELSE LET risk_factors == _analyze_cross_account_access(e, environ)
         IN  CrossAccountDecision(calculate_risk_score(risk_factors),
                                  [kind |-> "finding", risk_factors |-> risk_factors,
                                   assumed_role |-> e.requestParameters.roleArn])

\* main.py 123-147: the detectors EventProcessor registers by default.
Registered ==
    {"PublicBucketDetector", "AdminGrantDetector", "PolicyChangeDetector", "CrossAccountDetector"}

AnalyzeDetect(d, e, environ) ==
    CASE d = "PublicBucketDetector" -> PublicBucketDetect(e)
      [] d = "AdminGrantDetector"   -> AdminGrantDetect(e, environ)
      [] d = "PolicyChangeDetector" -> PolicyChangeDetect(e)
      [] d = "CrossAccountDetector" -> CrossAccountDetect(e, environ)


\* What an event's dictionaries answer to .get where the event says nothing.
Defaults ==
    [eventName |-> "",
     userIdentity |-> [arn |-> "", principalId |-> "", accountId |-> "", type |-> "IAMUser"],
     requestParameters |->
        [policyArn |-> "", policyDocument |-> None, userName |-> "",
         bucketName |-> "", bucketPolicy |-> None,
         PublicAccessBlockConfiguration |-> FALSE, acl |-> "",
         roleArn |-> "", externalId |-> "", durationSeconds |-> 3600, policy |-> None],
     eventTime |-> 12, errorCode |-> "", recipientAccountId |-> OwnAccount]

NoEnvironment == [WHITELISTED_PRINCIPALS |-> <<"">>, TRUSTED_ACCOUNTS |-> <<"">>]

\* The policy documents an event may carry.
EventDocuments == {[Statement |-> d] : d \in Documents(MaxStatements)}

Identities ==
    {[arn |-> a, principalId |-> i, accountId |-> c, type |-> t] :
        a \in {"", UserArn}, i \in {"", PrincipalId}, c \in {"", OwnAccount, OtherAccount},
        t \in {"IAMUser", "AssumedRole"}}

\* Permission grants under every whitelist of at most one principal.
AdminGrantScenarios ==
    LET attach == {[Defaults EXCEPT !.eventName = "AttachUserPolicy", !.userIdentity = u,
                                    !.requestParameters.policyArn = a,
                                    !.eventTime = h, !.errorCode = c] :
                      u \in {i \in Identities : i.type = "IAMUser" /\ i.accountId # OtherAccount},
                      a \in {AdminArn, ReadOnlyArn}, h \in {3, 12}, c \in {"", "AccessDenied"}}
        keys == {[Defaults EXCEPT !.eventName = "CreateAccessKey", !.userIdentity.arn = UserArn,
                                  !.requestParameters.userName = n] : n \in {"", "bob"}}
        inline == {[Defaults EXCEPT !.eventName = n, !.userIdentity.arn = UserArn,
                                    !.requestParameters.policyDocument = d] :
                      n \in {"PutUserPolicy", "UpdateAssumeRolePolicy"}, d \in EventDocuments}
    IN  {[event |-> e, env |-> [NoEnvironment EXCEPT !.WHITELISTED_PRINCIPALS = <<w>>]] :
            e \in attach \cup keys \cup inline, w \in {"", UserArn, PrincipalId, OwnAccount}}

PublicBucketScenarios ==
    LET names == {"", "my-sensitive-bucket", "prod-customer-data"}
        block == {[Defaults EXCEPT !.eventName = n, !.requestParameters.bucketName = b,
                                   !.requestParameters.PublicAccessBlockConfiguration = c] :
                     n \in {"DeleteBucketPublicAccessBlock", "PutBucketPublicAccessBlock",
                            "DeleteBucketPolicy"},
                     b \in names, c \in BOOLEAN}
        acls == {[Defaults EXCEPT !.eventName = "PutBucketAcl", !.requestParameters.bucketName = b,
                                  !.requestParameters.acl = a] :
                    b \in names, a \in {"", "READ", "WRITE"}}
        policies == {[Defaults EXCEPT !.eventName = "PutBucketPolicy",
                                      !.requestParameters.bucketName = b,
                                      !.requestParameters.bucketPolicy = d] :
                        b \in names \ {""}, d \in EventDocuments \cup {None}}
    IN  {[event |-> e, env |-> NoEnvironment] : e \in block \cup acls \cup policies}

PolicyChangeScenarios ==
    LET plain == {[Defaults EXCEPT !.eventName = n, !.requestParameters.policyArn = a,
                                   !.errorCode = c] :
                     n \in {"DeletePolicy", "SetDefaultPolicyVersion", "DetachUserPolicy"},
                     a \in {"", "arn:aws:iam::123456789012:policy/App"},
                     c \in {"", "AccessDenied"}}
        created == {[Defaults EXCEPT !.eventName = "CreatePolicy",
                                     !.requestParameters.policyDocument = d] :
                       d \in EventDocuments \cup {None}}
    IN  {[event |-> e, env |-> NoEnvironment] : e \in plain \cup created}

\* Role assumptions and federation under every trusted-account set of at
\* most one account.
CrossAccountScenarios ==
    LET assume == {[Defaults EXCEPT !.eventName = "AssumeRole", !.userIdentity = u,
                                    !.requestParameters.roleArn = r,
                                    !.requestParameters.externalId = x,
                                    !.recipientAccountId = rc, !.eventTime = h] :
                      u \in {i \in Identities : i.arn = "" /\ i.principalId = "" /\ i.accountId # ""},
                      r \in {RoleArn, OtherRoleArn}, x \in {"", "external-id"},
                      rc \in {OwnAccount, OtherAccount}, h \in {3, 12}}
        sessions == {[Defaults EXCEPT !.eventName = "AssumeRole", !.userIdentity.accountId = OwnAccount,
                                      !.requestParameters.roleArn = RoleArn,
                                      !.requestParameters.policy = d,
                                      !.requestParameters.durationSeconds = s] :
                        d \in EventDocuments, s \in {3600, 43201}}
        tokens == {[Defaults EXCEPT !.eventName = n, !.userIdentity.arn = UserArn] :
                      n \in {"GetFederationToken", "GetSessionToken"}}
    IN  {[event |-> e, env |-> [NoEnvironment EXCEPT !.TRUSTED_ACCOUNTS = <<t>>]] :
            e \in assume \cup sessions \cup tokens, t \in {"", OwnAccount, OtherAccount}}

AnalyzeScenarios ==
    AdminGrantScenarios \cup PublicBucketScenarios \cup PolicyChangeScenarios
        \cup CrossAccountScenarios

InitAnalyze ==
    /\ pc = "analyze_idle"
    /\ \E s \in AnalyzeScenarios : event = s.event /\ env = s.env
    /\ detectors = <<>>
    /\ AUTO_REMEDIATION = TRUE
    /\ dry_run = FALSE
    /\ channels = {}
    /\ cloud = None
    /\ cloud0 = None
    /\ inv = None
    /\ di = 0
    /\ detection_result = None
    /\ ai = 0
    /\ remediation_results = None
    /\ results = None
    /\ returned = None
    /\ factors = None
    /\ calls = <<>>
    /\ detectLog = <<>>
    /\ remLog = <<>>

\* One detect call on the registered detector d, constructed under env.
AnalyzeCall(d) ==
    /\ pc = "analyze_idle"
    /\ returned' = AnalyzeDetect(d, event, env)
    /\ calls' = <<Call("detect", d, "return")>>
    /\ pc' = "analyze_done"
    /\ UNCHANGED <<env, detectors, AUTO_REMEDIATION, dry_run, channels, cloud, cloud0,
                   inv, event, di, detection_result, ai, remediation_results, results,
                   factors, detectLog, remLog>>

NextAnalyze == \E d \in Registered : AnalyzeCall(d)

SpecAnalyze == InitAnalyze /\ [][NextAnalyze]_vars

Analyzed(d) == pc = "analyze_done" /\ Called = d


----------------------------------------------------------------------------
(* Properties of the detectors in detail                                   *)

\* The identity fields the event carries that the whitelist holds.
WhitelistedFields ==
    {f \in {"arn", "principalId", "accountId"} :
        event.userIdentity[f] \in LoadSet(env.WHITELISTED_PRINCIPALS)}

\* C23: whenever the acting principal of the event is in the configured
\* whitelist, by whichever identity field the event carries (ARN, principal
\* id or account id), AdminGrantDetector.detect returns is_threat = false.
C23_WhitelistedIsNoThreat ==
    (Analyzed("AdminGrantDetector") /\ WhitelistedFields # {}) => ~returned.is_threat

\* C24: whenever the account of the role the event targets is in the trusted
\* account set, CrossAccountDetector.detect returns the zero-risk result
\* without evaluating a risk factor.
C24_TrustedTargetShortCircuits ==
    (/\ Analyzed("CrossAccountDetector")
     /\ _extract_account_from_arn(event.requestParameters.roleArn) \in LoadSet(env.TRUSTED_ACCOUNTS))
       => IsZeroRisk(returned) /\ returned.details.kind # "finding"

\* C25: a DeleteBucketPublicAccessBlock event that names a bucket, whatever the
\* name, makes PublicBucketDetector.detect return risk_score >= 80, severity
\* CRITICAL, is_threat, auto_remediate and the recommendations revoke_access,
\* block_public and alert_team.
C25_BlockRemovalIsCritical ==
    (/\ Analyzed("PublicBucketDetector")
     /\ event.eventName = "DeleteBucketPublicAccessBlock"
     /\ event.requestParameters.bucketName # "")
       => /\ ScoreGE(returned.risk_score, 80)
          /\ returned.severity = "Severity.CRITICAL"
          /\ returned.is_threat /\ returned.auto_remediate
          /\ \A a \in {"revoke_access", "block_public", "alert_team"} : Recommends(returned, a)

\* C26: an AttachUserPolicy event of a principal outside the whitelist whose
\* policyArn names AdministratorAccess, at any hour and with or without an
\* error code, makes AdminGrantDetector.detect return risk_score >= 90,
\* is_threat, severity CRITICAL, auto_remediate and the recommendations
\* revoke_access and alert_team.
C26_AdminAttachIsCritical ==
    (/\ Analyzed("AdminGrantDetector")
     /\ event.eventName = "AttachUserPolicy"
     /\ event.requestParameters.policyArn = AdminArn
     /\ WhitelistedFields = {})
       => /\ ScoreGE(returned.risk_score, 90)
          /\ returned.severity = "Severity.CRITICAL"
          /\ returned.is_threat /\ returned.auto_remediate
          /\ \A a \in {"revoke_access", "alert_team"} : Recommends(returned, a)

\* C27: an AssumeRole event whose calling account, recipient account and
\* target role's account are one account, made by a caller that is not an
\* assumed-role session, gets a risk_score below 70 from
\* CrossAccountDetector.detect under every trusted-account set.
C27_SameAccountBelow70 ==
    (/\ Analyzed("CrossAccountDetector")
     /\ event.eventName = "AssumeRole"
     /\ _extract_source_account(event) = event.recipientAccountId
     /\ _extract_account_from_arn(event.requestParameters.roleArn) = event.recipientAccountId
     /\ event.userIdentity.type # "AssumedRole")
       => ~ScoreGE(returned.risk_score, 70)


\* The statements of the policy document the event carries, <<>> without one.
EmbeddedStatements ==
    LET p == event.requestParameters
    IN  IF p.policyDocument # None THEN p.policyDocument.Statement
        ELSE IF p.bucketPolicy # None THEN p.bucketPolicy.Statement
        ELSE IF p.policy # None THEN p.policy.Statement
        ELSE <<>>

\* The risks detector d derives from the statements of an embedded document:
\* public_bucket.py 174, admin_grant.py 176 and 193, policy_change.py 154,
\* cross_account.py 162.
PolicyRisks(d, statements) ==
    CASE d = "PublicBucketDetector" -> <<_analyze_bucket_policy(statements)>>
      [] d = "AdminGrantDetector"   -> <<_analyze_policy_document(statements),
                                         _analyze_assume_role_policy(statements)>>
      [] d = "PolicyChangeDetector" -> <<_analyze_policy_content(statements)>>
      [] d = "CrossAccountDetector" -> <<_analyze_session_policy(statements)>>

\* C29: when a detector has analysed an event, no risk it derives from the
\* event's policy document is higher than the risk it derives from the same
\* document followed by one more statement, well-formed or not.
C29_AppendNeverLowersRisk ==
    (pc = "analyze_done" /\ returned.details.kind = "finding") =>
       \A s \in Statements :
          LET before == PolicyRisks(Called, EmbeddedStatements)
              after == PolicyRisks(Called, Append(EmbeddedStatements, s))
          IN  \A i \in DOMAIN before : after[i] >= before[i]


----------------------------------------------------------------------------
(* Revocation of the registered detectors' findings                        *)

\* C28: with dry-run off, RevokeAccessRemediator.remediate on an
\* auto-remediated finding of a registered detector that recommends
\* revoke_access never ends in the error result of the branch for unsupported
\* detectors.
C28_RegisteredRevocationHandled ==
    (/\ pc = "remediator_done"
     /\ calls[1].who = "revoke_access"
     /\ ~dry_run
     /\ detection_result.detector_name \in Registered
     /\ detection_result.auto_remediate
     /\ Recommends(detection_result, "revoke_access"))
       => returned # UnsupportedDetector


----------------------------------------------------------------------------
(* The record the dispatcher returns                                       *)

\* The actions of the dispatch that ended with outcome o.
Ended(o) == SelectSeq(remLog, LAMBDA l : l.outcome = o)

\* C30: in the record the dispatcher returns, success is false exactly when
\* errors is not empty, and the entries of actions_taken, the actions that
\* raised and the actions without a registered remediator together are as
\* many as the recommended actions.
C30_RecordAccountsForEveryAction ==
    pc = "dispatch_done" =>
       /\ ~returned.success <=> returned.errors # <<>>
       /\ Len(returned.actions_taken) + Len(Ended("raise")) + Len(Ended("unregistered"))
             = Len(detection_result.recommended_actions)

C30_Witness ==
    /\ pc = "dispatch_done"
    /\ Len(detection_result.recommended_actions) = 3
    /\ Len(returned.actions_taken) = 1
    /\ Len(Ended("raise")) = 1
    /\ Len(Ended("unregistered")) = 1
    /\ ~returned.success
    /\ Len(returned.errors) = 1

====
